---- MODULE Spec2Model ----
(***************************************************************************)
(* Procedural asteroid generation of AAsteroidActor (icosphere build,      *)
(* shared-midpoint subdivision, noise displacement, statistics).           *)
(*                                                                         *)
(* Numbers: the engine's float/double values are modelled in signed        *)
(* fixed point with ONE units per 1.0; a product of two fixed-point values *)
(* is divided by ONE again, rounding to nearest.  FVector is a triple of   *)
(* such values.  Vertex and triangle indices are 0-based as in the code;   *)
(* At(s, i) reads element i of a TArray modelled as a sequence.            *)
(***************************************************************************)
EXTENDS Integers, Sequences, FiniteSets, TLC

\* ------------------------------------------------------------------------
\* Bounds of the model
\* ------------------------------------------------------------------------
MaxLevel == 2           \* largest SubdivisionsLevel built step by step
MaxSubdivisions == 0    \* largest Subdivisions of a generated asteroid
MaxLayers == 2          \* longest NoiseLayers list
MaxRuns == 2            \* generation runs compared with each other
MaxPlainSubdivisions == 1   \* largest Subdivisions of an undisplaced asteroid
MaxPlainLayers == 2     \* longest list of layers of intensity 0
MaxTrail == 4           \* camera modes the observation of ToggleCameraMode keeps
MaxReports == 2         \* true reports of one Started event the observation tells apart
MaxOverrunTicks == 3    \* shortest frames a hold is followed beyond CameraTrackMaxSeconds

\* ------------------------------------------------------------------------
\* Fixed-point arithmetic
\* ------------------------------------------------------------------------
ONE == 10 * 10 * 10

INT32_MAX == 2147483647

INT32_MIN == -2147483647 - 1

Abs(x) == IF x < 0 THEN -x ELSE x

Min(a, b) == IF a < b THEN a ELSE b

Max(a, b) == IF a > b THEN a ELSE b

\* a / b rounded to the nearest integer (b > 0)
RDiv(a, b) == (2 * a + b) \div (2 * b)

\* fixed-point product
FMul(a, b) == RDiv(a * b, ONE)

RECURSIVE ISqrtIter(_, _)
ISqrtIter(n, x) ==
    LET y == (x + n \div x) \div 2
    IN  IF y >= x THEN x ELSE ISqrtIter(n, y)

\* integer square root, rounded to nearest
ISqrt(n) ==
    IF n <= 0 THEN 0
    ELSE LET r == ISqrtIter(n, n)
         IN  IF n - r * r > r THEN r + 1 ELSE r

\* FMath::Sqrt on a fixed-point value
FSqrt(x) == ISqrt(x * ONE)

\* ------------------------------------------------------------------------
\* FVector
\* ------------------------------------------------------------------------
FVector(x, y, z) == <<x, y, z>>

\* the sequence s as a stored array: its elements are computed once (a
\* function written [i \in S |-> e] is otherwise re-evaluated at every use)
Force(s) == s \o <<>>

\* the element of a one-element set; The({ e(x) : x \in {v} }) is e(v) with
\* v computed once, like a local variable of the code
The(S) == CHOOSE r \in S : TRUE

ZeroVector == <<0, 0, 0>>

VAdd(A, B) == <<A[1] + B[1], A[2] + B[2], A[3] + B[3]>>

VSub(A, B) == <<A[1] - B[1], A[2] - B[2], A[3] - B[3]>>

\* FVector * float
VScale(A, s) == <<FMul(A[1], s), FMul(A[2], s), FMul(A[3], s)>>

DotProduct(A, B) == RDiv(A[1] * B[1] + A[2] * B[2] + A[3] * B[3], ONE)

CrossProduct(A, B) ==
    <<RDiv(A[2] * B[3] - A[3] * B[2], ONE),
      RDiv(A[3] * B[1] - A[1] * B[3], ONE),
      RDiv(A[1] * B[2] - A[2] * B[1], ONE)>>

SizeSquaredRaw(A) == A[1] * A[1] + A[2] * A[2] + A[3] * A[3]

\* |A| in fixed point
Size(A) == ISqrt(SizeSquaredRaw(A))

MaxAbs(A) == Max(Abs(A[1]), Max(Abs(A[2]), Abs(A[3])))

\* FVector::Normalize(Tolerance = SMALL_NUMBER) succeeds iff
\* SquareSum > 1e-8; at this resolution that is SquareSum > 0.
NormalizeOk(A) == SizeSquaredRaw(A) > 0

\* A has length 1 to within the resolution of the number model
IsUnit(A) == Abs(Size(A) - ONE) <= 1

\* A short vector multiplied by an integer that brings its largest component
\* to about 1; a vector that is not short is returned as it is
ScaleUp(A) ==
    The({ <<A[1] * k, A[2] * k, A[3] * k>>
          : k \in {IF MaxAbs(A) < ONE THEN ONE \div MaxAbs(A) ELSE 1} })

\* The vector after V.Normalize(): scaled by 1/sqrt(SquareSum) when the
\* squared length exceeds the tolerance, left unchanged otherwise.  A vector
\* that is already of unit length at this resolution keeps its value, and a
\* short vector is first scaled up by an integer so that the division keeps
\* the relative precision a float has at every magnitude.
Normalize(A) ==
    IF ~NormalizeOk(A) THEN A
    ELSE IF IsUnit(A) THEN A
    ELSE The({ The({ <<RDiv(W[1] * ONE, len), RDiv(W[2] * ONE, len), RDiv(W[3] * ONE, len)>>
                     : len \in {Size(W)} })
               : W \in {ScaleUp(A)} })

\* FVector::GetSafeNormal(): the unit vector, or zero for a tiny vector
GetSafeNormal(A) == IF ~NormalizeOk(A) THEN ZeroVector ELSE Normalize(A)

\* element i (0-based) of a TArray
At(s, i) == s[i + 1]

\* TArray::IsValidIndex
IsValidIndex(s, i) == i >= 0 /\ i < Len(s)

\* ------------------------------------------------------------------------
\* State
\* ------------------------------------------------------------------------
VARIABLES
    \* generation configuration (UPROPERTY fields of AAsteroidActor)
    Subdivisions, MinRadius, MaxRadius, Density, GlobalSeed, NoiseLayers,
    MaxDisplacementFraction, bEnablePhysics,
    \* position in BuildBaseIcosphere / SubdivideIcosphere / GenerateAsteroid
    pc,
    \* the vertex and triangle buffers
    Vertices, Triangles,
    \* locals of SubdivideIcosphere and of the loop in BuildBaseIcosphere
    middlePointIndexCache, newTriangles, triIndex, subdivPass, mid,
    \* observation of the GetMiddlePoint calls of the current pass
    passStartVertices, requests, lastRequest,
    \* locals of GenerateAsteroid and of the layer loop of ApplyNoiseLayers
    UsedGlobalSeed, LayerSeeds, ChosenRadius, layerIndex,
    \* AAsteroidActor::AsteroidStats
    AsteroidStats,
    \* what ProcMesh (mesh upload, collision, physics) has been handed
    ProcMesh,
    \* payloads delivered to each subscriber of OnAsteroidGenerated
    received,
    \* observation: the unit vertices before the layers, the vertices before
    \* the current layer, the clamped displacements and seeds the layers used
    unitVertices, layerStartVertices, displacements, usedSeeds,
    \* number of the current run and the outputs of the run before it
    runs, prev,
    \* outcome of the signed overflow in FRandomStream::RandRange for this build
    int32OverflowWraps,
    \* AShipPawn: the camera mode and which camera components are active
    CameraMode, NOSE_CAM, FOLLOW_CAM, FOLLOW_CAM2, NoseStickYaw,
    \* AShipPawn: camera tracking (yaw of the actor and of CameraPivot, in
    \* degrees; times in seconds; both in units of 1/ONE)
    CameraTrackMaxSeconds, bCameraTrackActive, CameraTrackAccumulated,
    CameraPivotYaw, ActorYaw,
    \* AAgnosticController: InputState.bOrientOpposite
    bOrientOpposite,
    \* observation: the camera modes the recent ToggleCameraMode calls left,
    \* the ConsumeOrientOpposite calls, the last TickCameraTrack call
    toggleTrail, startedSinceConsume, reportsOfStarted, lastConsume, lastTrackTick,
    \* AShipPawn::BeginPlay has run
    shipPlaying,
    \* AAgnosticController::InputState: sticks, thrust and boost
    LeftStick, RightStick, Thrust, Boost,
    \* observation: the last input callback and the value it was handed
    lastCallback, lastValue,
    \* UExhaustBellController: tuning values, the resolved mesh pointer (set or
    \* null), BeginPlay has run, the accumulated roll, the uniform relative
    \* scale of the mesh
    ScaleMin, ScaleMax, RotationSpeed, ExhaustBell, bellPlaying, AccumRollDeg,
    RelativeScale3D,
    \* observation: the last TickComponent call with its thrust, scale factor
    \* and roll step
    lastTick

cfgVars == <<Subdivisions, MinRadius, MaxRadius, Density, GlobalSeed, NoiseLayers,
             MaxDisplacementFraction, bEnablePhysics>>

icoLocals == <<middlePointIndexCache, newTriangles, triIndex, subdivPass, mid,
               passStartVertices, requests, lastRequest>>

genVars == <<UsedGlobalSeed, LayerSeeds, ChosenRadius, layerIndex, AsteroidStats, ProcMesh,
             received, unitVertices, layerStartVertices, displacements, usedSeeds,
             runs, prev, int32OverflowWraps>>

shipVars == <<CameraMode, NOSE_CAM, FOLLOW_CAM, FOLLOW_CAM2, NoseStickYaw,
              CameraTrackMaxSeconds, bCameraTrackActive, CameraTrackAccumulated,
              CameraPivotYaw, ActorYaw, bOrientOpposite,
              toggleTrail, startedSinceConsume, reportsOfStarted, lastConsume,
              lastTrackTick, shipPlaying>>

inputVars == <<LeftStick, RightStick, Thrust, Boost, lastCallback, lastValue>>

bellVars == <<ScaleMin, ScaleMax, RotationSpeed, ExhaustBell, bellPlaying, AccumRollDeg,
              RelativeScale3D, lastTick>>

vars == <<cfgVars, pc, Vertices, Triangles, icoLocals, genVars, shipVars, inputVars, bellVars>>

\* ------------------------------------------------------------------------
\* The ship and its controller as constructed
\* ------------------------------------------------------------------------
\* no ConsumeOrientOpposite call yet
NoConsume == [called |-> FALSE, flagBefore |-> FALSE, returned |-> FALSE,
              flagAfter |-> FALSE, startedSince |-> FALSE]

\* no TickCameraTrack call yet
NoTrackTick == [called |-> FALSE, held |-> FALSE, accumulatedBefore |-> 0,
                rotated |-> FALSE]

\* AShipPawn::ApplyCameraMode(bInstant = true): which cameras are active
UseNose(mode) == mode = "Nose"

UseChase2(mode) == mode = "Chase2"

\* an FInputActionValue: its type and its first two components
NoValue == [type |-> "None", X |-> 0, Y |-> 0]

\* FShipInputState as constructed: all inputs zero
InputConstructed ==
    /\ LeftStick = <<0, 0>>
    /\ RightStick = <<0, 0>>
    /\ Thrust = 0
    /\ Boost = 0
    /\ lastCallback = "none"
    /\ lastValue = NoValue

\* no TickComponent call observed yet
NoTick == [LT |-> 0, S |-> 0, DeltaDeg |-> 0, ticked |-> FALSE, called |-> FALSE]

\* the mesh and the fields of the bell controller before BeginPlay
BellUntouched ==
    /\ ExhaustBell = FALSE
    /\ bellPlaying = FALSE
    /\ AccumRollDeg = 0
    /\ RelativeScale3D = ONE
    /\ lastTick = NoTick

\* UExhaustBellController as constructed, with the header's tuning values
BellConstructed ==
    /\ ScaleMin = (9 * ONE) \div 10
    /\ ScaleMax = (13 * ONE) \div 10
    /\ RotationSpeed = 360 * ONE
    /\ BellUntouched

\* CameraTrackMaxSeconds = 5.0f and the CameraPivot of the constructor,
\* which has no rotation relative to the root component
TrackDefaults ==
    /\ CameraTrackMaxSeconds = 5 * ONE
    /\ CameraPivotYaw = 0

\* the other field initialisers of AShipPawn and of FShipInputState, the
\* components of the AShipPawn constructor, ApplyCameraMode(true) of BeginPlay
ShipConstructed ==
    /\ CameraMode = "Chase"
    /\ NOSE_CAM = UseNose("Chase")
    /\ FOLLOW_CAM = (~UseNose("Chase") /\ ~UseChase2("Chase"))
    /\ FOLLOW_CAM2 = UseChase2("Chase")
    /\ NoseStickYaw = 0
    /\ bCameraTrackActive = FALSE
    /\ CameraTrackAccumulated = 0
    /\ ActorYaw = 0
    /\ bOrientOpposite = FALSE
    /\ toggleTrail = <<"Chase">>
    /\ startedSinceConsume = FALSE
    /\ reportsOfStarted = 0
    /\ lastConsume = NoConsume
    /\ lastTrackTick = NoTrackTick
    /\ shipPlaying = TRUE

\* values of CameraMode (EditAnywhere)
CameraModes == {"Chase", "Chase2", "Nose"}

\* the ship as the AShipPawn constructor leaves it, before BeginPlay: the
\* configured camera mode, FOLLOW_CAM active, FOLLOW_CAM2 and NOSE_CAM not
ShipSpawned ==
    /\ CameraMode \in CameraModes
    /\ NOSE_CAM = FALSE
    /\ FOLLOW_CAM = TRUE
    /\ FOLLOW_CAM2 = FALSE
    /\ NoseStickYaw = 0
    /\ bCameraTrackActive = FALSE
    /\ CameraTrackAccumulated = 0
    /\ ActorYaw = 0
    /\ bOrientOpposite = FALSE
    /\ toggleTrail = <<CameraMode>>
    /\ startedSinceConsume = FALSE
    /\ reportsOfStarted = 0
    /\ lastConsume = NoConsume
    /\ lastTrackTick = NoTrackTick
    /\ shipPlaying = FALSE

\* ------------------------------------------------------------------------
\* Icosphere builder
\* ------------------------------------------------------------------------
\* golden ratio t = (1 + sqrt(5)) / 2
GoldenT == RDiv(ONE + FSqrt(5 * ONE), 2)

IcosahedronVertices ==
    LET t == GoldenT
        u == ONE
    IN  << FVector(-u,  t,  0), FVector( u,  t,  0), FVector(-u, -t,  0), FVector( u, -t,  0),
           FVector( 0, -u,  t), FVector( 0,  u,  t), FVector( 0, -u, -t), FVector( 0,  u, -t),
           FVector( t,  0, -u), FVector( t,  0,  u), FVector(-t,  0, -u), FVector(-t,  0,  u) >>

\* faulty variant: the last face is listed in the other direction
faceIndicesLastTurned ==
    << 0,11,5,  0,5,1,   0,1,7,   0,7,10,  0,10,11,
       1,5,9,   5,11,4,  11,10,2, 10,7,6,  7,1,8,
       3,9,4,   3,4,2,   3,2,6,   3,6,8,   3,8,9,
       4,9,5,   2,4,11,  6,2,10,  8,6,7,   9,1,8 >>

\* int32 faceIndices[]
faceIndices ==
    << 0,11,5,  0,5,1,   0,1,7,   0,7,10,  0,10,11,
       1,5,9,   5,11,4,  11,10,2, 10,7,6,  7,1,8,
       3,9,4,   3,4,2,   3,2,6,   3,6,8,   3,8,9,
       4,9,5,   2,4,11,  6,2,10,  8,6,7,   9,8,1 >>

NormalizeVertices(Vs) == Force([i \in 1..Len(Vs) |-> Normalize(Vs[i])])

\* faulty variant: the key keeps the order of the two indices
MakeKeyOrdered(a, b) == <<a, b>>

\* key of the cache: ((int64)small << 32) | (uint32)large, i.e. the pair
MakeKey(a, b) == <<Min(a, b), Max(a, b)>>

\* middle point as GetMiddlePoint computes it when the edge is not cached
MiddleVector(point1, point2) == Normalize(VScale(VAdd(point1, point2), ONE \div 2))

\* faulty variant: a cache miss also stores the middle point over vertex p1
GetMiddlePointOverwriting(p1, p2, Vs, Cache) ==
    LET key == <<Min(p1, p2), Max(p1, p2)>>
    IN  IF key \in DOMAIN Cache
        THEN [ret |-> Cache[key], Vertices |-> Vs, Cache |-> Cache]
        ELSE LET middle == MiddleVector(At(Vs, p1), At(Vs, p2))
                 i == Len(Vs)
             IN  [ret |-> i, Vertices |-> Append([Vs EXCEPT ![p1 + 1] = middle], middle),
                  Cache |-> Cache @@ (key :> i)]

\* GetMiddlePoint: the returned index with the vertex buffer and cache it leaves
GetMiddlePoint(p1, p2, Vs, Cache) ==
    LET key == MakeKey(p1, p2)
    IN  IF key \in DOMAIN Cache
        THEN [ret |-> Cache[key], Vertices |-> Vs, Cache |-> Cache]
        ELSE LET middle == MiddleVector(At(Vs, p1), At(Vs, p2))
                 i == Len(Vs)
             IN  [ret |-> i, Vertices |-> Append(Vs, middle), Cache |-> Cache @@ (key :> i)]

\* faulty variant: the centre triangle (a,b,c) is left out
ChildTrianglesNoCentre(v1, v2, v3, a, b, c) ==
    <<v1, a, c,  v2, b, a,  v3, c, b>>

\* the four triangles that replace (v1,v2,v3)
ChildTriangles(v1, v2, v3, a, b, c) ==
    <<v1, a, c,  v2, b, a,  v3, c, b,  a, b, c>>

EmptyCache == [k \in {} |-> 0]

\* body of the loop of SubdivideIcosphere for the triangle at index i;
\* st holds the vertex buffer, the cache and the new triangle list
SubdivideTriangle(st, Tris, i) ==
    LET v1 == At(Tris, i)
        v2 == At(Tris, i + 1)
        v3 == At(Tris, i + 2)
    IN  The({ The({ The({ [Vertices |-> rc.Vertices, Cache |-> rc.Cache,
                           newTriangles |-> st.newTriangles \o
                               ChildTriangles(v1, v2, v3, ra.ret, rb.ret, rc.ret)]
                          : rc \in {GetMiddlePoint(v3, v1, rb.Vertices, rb.Cache)} })
                    : rb \in {GetMiddlePoint(v2, v3, ra.Vertices, ra.Cache)} })
              : ra \in {GetMiddlePoint(v1, v2, st.Vertices, st.Cache)} })

\* the loop over the triangles lo .. hi-1, in order (split in halves only to
\* keep the evaluation shallow)
RECURSIVE SubdivideRange(_, _, _, _)
SubdivideRange(st, Tris, lo, hi) ==
    IF hi <= lo THEN st
    ELSE IF hi = lo + 1 THEN SubdivideTriangle(st, Tris, 3 * lo)
    ELSE The({ SubdivideRange(left, Tris, (lo + hi) \div 2, hi)
               : left \in {SubdivideRange(st, Tris, lo, (lo + hi) \div 2)} })

\* one whole SubdivideIcosphere pass
SubdivideIcosphere(Vs, Tris) ==
    The({ [Vertices |-> st.Vertices, Triangles |-> st.newTriangles]
          : st \in {SubdivideRange([Vertices |-> Vs, Cache |-> EmptyCache,
                                    newTriangles |-> <<>>],
                                   Tris, 0, Len(Tris) \div 3)} })

RECURSIVE SubdivideTimes(_, _, _)
SubdivideTimes(n, Vs, Tris) ==
    IF n <= 0 THEN [Vertices |-> Vs, Triangles |-> Tris]
    ELSE The({ SubdivideTimes(n - 1, r.Vertices, r.Triangles)
               : r \in {SubdivideIcosphere(Vs, Tris)} })

\* BuildBaseIcosphere as a whole
BuildBaseIcosphere(SubdivisionsLevel) ==
    The({ [Vertices |-> NormalizeVertices(r.Vertices), Triangles |-> r.Triangles]
          : r \in {SubdivideTimes(SubdivisionsLevel,
                                  NormalizeVertices(IcosahedronVertices), faceIndices)} })


\* ------------------------------------------------------------------------
\* Random sources
\* ------------------------------------------------------------------------
\* values FMath::Rand() may return (process-wide source)
RandDraws == {3, 200}

\* values FMath::FRand() may return, in [0, 1]
FRandDraws == {0, ONE}

\* FRandomStream keeps a 32-bit seed advanced by Seed * 196314165 + 907633515;
\* the model keeps its low LcgBits bits, which that recurrence determines
LcgMod == 2 * 2 * 2 * 2 * 2 * 2 * 2 * 2

\* FRandomStream(int32 InSeed)
FRandomStream(InSeed) == InSeed % LcgMod

\* FRandomStream::MutateSeed
MutateSeed(Seed) == ((Seed % LcgMod) * (196314165 % LcgMod) + (907633515 % LcgMod)) % LcgMod

\* the fraction in [0, 1) FRandomStream::GetFraction derives from a seed
Fraction(Seed) == (Seed * ONE) \div LcgMod

\* 32-bit two's-complement sum of two int32 values
Int32Add(a, b) ==
    IF b > 0 /\ a > INT32_MAX - b THEN (a + INT32_MIN) + (b + INT32_MIN)
    ELSE IF b < 0 /\ a < INT32_MIN - b THEN (a - INT32_MIN) + (b - INT32_MIN)
    ELSE a + b

\* (Max - Min) + 1 does not fit int32
RangeOverflows(Lo, Hi) == Hi - Lo = INT32_MAX

\* FRandomStream::RandRange(Min, Max) on a stream in state Seed:
\*   Range = (Max - Min) + 1;  return Min + RandHelper(Range)
\*   RandHelper(A) = (A > 0) ? TruncToInt(GetFraction() * float(A)) : 0
\* The signed overflow of Range is undefined: either the sum wraps to a
\* negative Range (wraps), or the build computes with the range 2^31.
RandRange(Seed, Lo, Hi, wraps) ==
    IF RangeOverflows(Lo, Hi)
    THEN IF wraps
         THEN [value |-> Lo + 0, Seed |-> Seed]
         ELSE LET s == MutateSeed(Seed)
              IN  [value |-> Lo + s * ((INT32_MAX \div LcgMod) + 1), Seed |-> s]
    ELSE LET A == Int32Add(Hi - Lo, 1)
         IN  IF A > 0
             THEN LET s == MutateSeed(Seed)
                  IN  [value |-> Lo + (s * A) \div LcgMod, Seed |-> s]
             ELSE [value |-> Lo + 0, Seed |-> Seed]

\* faulty variant: the lower end of the range is forgotten
FRandRangeFromZero(Lo, Hi, f) == FMul(Hi, f)

\* FMath::RandRange(float Min, float Max) = Min + (Max - Min) * FRand()
FRandRange(Lo, Hi, f) == Lo + FMul(Hi - Lo, f)

\* ------------------------------------------------------------------------
\* Seed resolution (GenerateAsteroid, first part)
\* ------------------------------------------------------------------------
\* faulty variant: the configured seed is ignored
PickGlobalSeedIgnoringConfig(ConfiguredSeed, r) == r

\* the global seed used: the configured one, or a process-wide draw r
PickGlobalSeed(ConfiguredSeed, r) == IF ConfiguredSeed < 0 THEN r ELSE ConfiguredSeed

\* faulty variant: the configured seed of the layer is not looked at
ResolveLayerSeedAlwaysDrawn(LayerSeed, GlobalRand, wraps) ==
    RandRange(GlobalRand, 0, INT32_MAX, wraps)

\* the seed of one layer and the state GlobalRand is left in
ResolveLayerSeed(LayerSeed, GlobalRand, wraps) ==
    IF LayerSeed < 0
    THEN RandRange(GlobalRand, 0, INT32_MAX, wraps)
    ELSE [value |-> LayerSeed, Seed |-> GlobalRand]

RECURSIVE ResolveFrom(_, _, _, _, _)
ResolveFrom(i, GlobalRand, Layers, acc, wraps) ==
    IF ~(i < Len(Layers)) THEN acc
    ELSE LET r == ResolveLayerSeed(At(Layers, i).Seed, GlobalRand, wraps)
         IN  ResolveFrom(i + 1, r.Seed, Layers, Append(acc, r.value), wraps)

\* faulty variant: the loop stops one layer early
ResolveLayerSeedsButLast(UsedSeed, Layers, wraps) ==
    ResolveFrom(0, FRandomStream(UsedSeed), SubSeq(Layers, 1, Len(Layers) - 1), <<>>, wraps)

\* the LayerSeeds array built from the used global seed
ResolveLayerSeeds(UsedSeed, Layers, wraps) ==
    ResolveFrom(0, FRandomStream(UsedSeed), Layers, <<>>, wraps)

\* ------------------------------------------------------------------------
\* Noise displacement
\* ------------------------------------------------------------------------
\* FMath::PerlinNoise3D: a fixed function of the position with values in
\* [-1, 1]; modelled by a lattice hash with nine levels
PerlinNoise3D(P) ==
    LET h == ((P[1] \div 64) + 3 * (P[2] \div 64) + 5 * (P[3] \div 64)) % 9
    IN  (h - 4) * (ONE \div 4)

\* FMath::Clamp
Clamp(X, Lo, Hi) == IF X < Lo THEN Lo ELSE IF X < Hi THEN X ELSE Hi

\* (ox, oy, oz): three FRand() * 1000 draws of the stream seeded with seed
LayerOffsets(seed) ==
    LET s1 == MutateSeed(FRandomStream(seed))
        s2 == MutateSeed(s1)
        s3 == MutateSeed(s2)
    IN  FVector(Fraction(s1) * 1000, Fraction(s2) * 1000, Fraction(s3) * 1000)

\* the axis offsets of the three noise channels
ChannelY == FVector(RDiv(1313 * ONE, 100), RDiv(3737 * ONE, 100), RDiv(773 * ONE, 100))

ChannelZ == FVector(RDiv(9797 * ONE, 100), RDiv(2121 * ONE, 100), RDiv(5555 * ONE, 100))

\* faulty variant: the intensity of the layer is not applied
NoiseOffsetIgnoringIntensity(V, Layer, off) ==
    LET samplePoint == VAdd(VScale(V, Layer.Scale), off)
        nx == PerlinNoise3D(VAdd(samplePoint, ZeroVector))
        ny == PerlinNoise3D(VAdd(samplePoint, ChannelY))
        nz == PerlinNoise3D(VAdd(samplePoint, ChannelZ))
    IN  VScale(FVector(nx, ny, nz), ONE \div 2)

\* the raw displacement vector of one vertex for one layer
NoiseOffset(V, Layer, off) ==
    LET samplePoint == VAdd(VScale(V, Layer.Scale), off)
        nx == PerlinNoise3D(VAdd(samplePoint, ZeroVector))
        ny == PerlinNoise3D(VAdd(samplePoint, ChannelY))
        nz == PerlinNoise3D(VAdd(samplePoint, ChannelZ))
    IN  VScale(VScale(FVector(nx, ny, nz), Layer.Intensity), ONE \div 2)

\* faulty variant: the displacement along the normal without the clamp
UnclampedDisplacement(offset, normal, maxDisplacement) ==
    DotProduct(offset, normal)

\* the scalar displacement along the normal, clamped
ClampedDisplacement(offset, normal, maxDisplacement) ==
    Clamp(DotProduct(offset, normal), -maxDisplacement, maxDisplacement)

\* body of the vertex loop: V = V + normal * displacement
DisplaceVertex(V, Layer, off, maxDisplacement) ==
    The({ The({ [V |-> VAdd(V, VScale(normal, displacement)),
                 displacement |-> displacement]
                : displacement \in {ClampedDisplacement(NoiseOffset(V, Layer, off),
                                                        normal, maxDisplacement)} })
          : normal \in {Normalize(V)} })

\* one iteration of the layer loop of ApplyNoiseLayers over all vertices
ApplyNoiseLayer(Vs, Layer, seed, MaxDisplacementFrac) ==
    The({ Force([i \in 1..Len(Vs) |-> DisplaceVertex(Vs[i], Layer, off, MaxDisplacementFrac)])
          : off \in {LayerOffsets(seed)} })

\* ------------------------------------------------------------------------
\* Mesh creation
\* ------------------------------------------------------------------------
\* the normal accumulators after the triangle at index i has been visited
\* faulty variant: the cross product as it is, as long as twice the area
FaceNormalRaw(v0, v1, v2) == CrossProduct(VSub(v1, v0), VSub(v2, v0))

\* faceNormal = FVector::CrossProduct(v1 - v0, v2 - v0).GetSafeNormal()
FaceNormal(v0, v1, v2) == GetSafeNormal(CrossProduct(VSub(v1, v0), VSub(v2, v0)))

AccumulateFace(Normals, Vs, Tris, i) ==
    LET i0 == At(Tris, i)
        i1 == At(Tris, i + 1)
        i2 == At(Tris, i + 2)
    IN  IF ~IsValidIndex(Vs, i0) \/ ~IsValidIndex(Vs, i1) \/ ~IsValidIndex(Vs, i2)
        THEN Normals
        ELSE LET v0 == At(Vs, i0)
                 v1 == At(Vs, i1)
                 v2 == At(Vs, i2)
             IN  The({ [Normals EXCEPT ![i0 + 1] = VAdd(@, faceNormal),
                                       ![i1 + 1] = VAdd(@, faceNormal),
                                       ![i2 + 1] = VAdd(@, faceNormal)]
                       : faceNormal \in
                            {FaceNormal(v0, v1, v2)} })

\* the accumulation loop over the triangles lo .. hi-1, in order (split in
\* halves only to keep the evaluation shallow)
RECURSIVE AccumulateRange(_, _, _, _, _)
AccumulateRange(Normals, Vs, Tris, lo, hi) ==
    IF hi <= lo THEN Normals
    ELSE IF hi = lo + 1 THEN AccumulateFace(Normals, Vs, Tris, 3 * lo)
    ELSE The({ AccumulateRange(left, Vs, Tris, (lo + hi) \div 2, hi)
               : left \in {AccumulateRange(Normals, Vs, Tris, lo, (lo + hi) \div 2)} })

\* the per-vertex normals CreateMeshFromData computes
ComputeNormals(Vs, Tris) ==
    The({ Force([i \in 1..Len(Vs) |-> Normalize(summed[i])])
          : summed \in {AccumulateRange(Force([i \in 1..Len(Vs) |-> ZeroVector]),
                                        Vs, Tris, 0, Len(Tris) \div 3)} })

\* faulty variant: the section is always created with triangle collision
MeshSectionWithCollision(Vs, Tris, bCreateCollision) ==
    [Vertices |-> Vs, Triangles |-> Tris, Normals |-> ComputeNormals(Vs, Tris),
     bCreateCollision |-> TRUE]

\* the arguments CreateMeshFromData passes to ProcMesh->CreateMeshSection
MeshSection(Vs, Tris, bCreateCollision) ==
    [Vertices |-> Vs, Triangles |-> Tris, Normals |-> ComputeNormals(Vs, Tris),
     bCreateCollision |-> bCreateCollision]

\* ------------------------------------------------------------------------
\* Statistics
\* ------------------------------------------------------------------------
PI == RDiv(355 * ONE, 113)

\* faulty variant: one factor Radius is missing
CalculateVolumeFromRadiusSquared(Radius) ==
    FMul(FMul(FMul(RDiv(4 * ONE, 3), PI), Radius), Radius)

\* (4.0 / 3.0) * PI * Radius * Radius * Radius, evaluated left to right
CalculateVolumeFromRadius(Radius) ==
    FMul(FMul(FMul(FMul(RDiv(4 * ONE, 3), PI), Radius), Radius), Radius)

\* AsteroidStats as CalculateStats leaves it
CalculateStats(Radius, density) ==
    The({ [Radius |-> Radius, Volume |-> Volume, Mass |-> FMul(Volume, density),
           NoiseLayerSeeds |-> <<>>]
          : Volume \in {CalculateVolumeFromRadius(Radius)} })

\* ------------------------------------------------------------------------
\* BuildBaseIcosphere step by step: one step per GetMiddlePoint call
\* ------------------------------------------------------------------------
NoRequest == [p1 |-> -1, p2 |-> -1, ret |-> -1, hit |-> FALSE, before |-> 0]

NoMid == [a |-> -1, b |-> -1, c |-> -1]

\* AsteroidStats of a constructed actor (member initializers of FAsteroidStats)
DefaultStats == [Radius |-> 0, Volume |-> 0, Mass |-> 0, NoiseLayerSeeds |-> <<>>]

\* ProcMesh of a constructed actor: no mesh section, no convex hull, physics
\* simulation off, no mass override
DefaultProcMesh ==
    [Sections |-> <<>>, ConvexMeshes |-> <<>>, ConvexCleared |-> 0,
     CollisionEnabled |-> "QueryAndPhysics",
     bSimulatePhysics |-> FALSE, bOverrideMass |-> FALSE, MassInKg |-> 0, PhysicsCalls |-> 0]

\* the listeners bound to OnAsteroidGenerated
Subscribers == {"s1", "s2"}

NoPrev == [Vertices |-> <<>>, Triangles |-> <<>>, AsteroidStats |-> DefaultStats,
           LayerSeeds |-> <<>>, UsedGlobalSeed |-> 0]

\* instance state of a freshly constructed actor before BeginPlay
Constructed ==
    /\ UsedGlobalSeed = 0
    /\ LayerSeeds = <<>>
    /\ ChosenRadius = 0
    /\ layerIndex = 0
    /\ AsteroidStats = DefaultStats
    /\ ProcMesh = DefaultProcMesh
    /\ received = [sub \in Subscribers |-> <<>>]
    /\ unitVertices = <<>>
    /\ layerStartVertices = <<>>
    /\ displacements = <<>>
    /\ usedSeeds = <<>>

\* header defaults of the configuration (the constructor adds one layer)
DefaultLayer == [Scale |-> ONE \div 10, Intensity |-> ONE, Seed |-> -1]

IcoInit ==
    /\ ShipConstructed
    /\ TrackDefaults
    /\ InputConstructed
    /\ BellConstructed
    /\ Subdivisions \in 0..MaxLevel
    /\ MinRadius = 250 * ONE
    /\ MaxRadius = 1000 * ONE
    /\ Density = 7874 * ONE
    /\ GlobalSeed = -1
    /\ NoiseLayers = <<DefaultLayer>>
    /\ MaxDisplacementFraction = ONE \div 2
    /\ bEnablePhysics = TRUE
    /\ pc = "ico_entry"
    /\ Vertices = <<>>
    /\ Triangles = <<>>
    /\ middlePointIndexCache = EmptyCache
    /\ newTriangles = <<>>
    /\ triIndex = 0
    /\ subdivPass = 0
    /\ mid = NoMid
    /\ passStartVertices = <<>>
    /\ requests = {}
    /\ lastRequest = NoRequest
    /\ Constructed
    /\ runs = 1
    /\ prev = NoPrev
    /\ int32OverflowWraps = TRUE

\* BuildBaseIcosphere up to the first normalization
IcoCreate ==
    /\ pc = "ico_entry"
    /\ Vertices' = NormalizeVertices(IcosahedronVertices)
    /\ Triangles' = faceIndices
    /\ subdivPass' = 0
    /\ pc' = "ico_loop"
    /\ UNCHANGED <<shipVars, inputVars, bellVars, cfgVars, genVars, middlePointIndexCache, newTriangles, triIndex, mid,
                   passStartVertices, requests, lastRequest>>

\* entry of SubdivideIcosphere: fresh cache and fresh triangle list
IcoPassBegin ==
    /\ pc = "ico_loop"
    /\ subdivPass < Subdivisions
    /\ middlePointIndexCache' = EmptyCache
    /\ newTriangles' = <<>>
    /\ triIndex' = 0
    /\ mid' = NoMid
    /\ passStartVertices' = Vertices
    /\ requests' = {}
    /\ lastRequest' = NoRequest
    /\ pc' = "tri_a"
    /\ UNCHANGED <<shipVars, inputVars, bellVars, cfgVars, genVars, Vertices, Triangles, subdivPass>>

\* faulty variant: the vertex buffer is handed over by value, so the vertex
\* GetMiddlePoint adds is lost
MiddlePointCallByValue(p1, p2, field, next) ==
    LET r == GetMiddlePoint(p1, p2, Vertices, middlePointIndexCache)
        req == [p1 |-> p1, p2 |-> p2, ret |-> r.ret,
                hit |-> (MakeKey(p1, p2) \in DOMAIN middlePointIndexCache),
                before |-> Len(Vertices)]
    IN  /\ Vertices' = Vertices
        /\ middlePointIndexCache' = r.Cache
        /\ mid' = [mid EXCEPT ![field] = r.ret]
        /\ requests' = requests \cup {[p1 |-> p1, p2 |-> p2, ret |-> r.ret]}
        /\ lastRequest' = req
        /\ pc' = next
        /\ UNCHANGED <<shipVars, inputVars, bellVars, cfgVars, genVars, Triangles, newTriangles, triIndex, subdivPass,
                       passStartVertices>>

\* one GetMiddlePoint call of the loop body, for edge (p1, p2)
MiddlePointCall(p1, p2, field, next) ==
    LET r == GetMiddlePoint(p1, p2, Vertices, middlePointIndexCache)
        req == [p1 |-> p1, p2 |-> p2, ret |-> r.ret,
                hit |-> (MakeKey(p1, p2) \in DOMAIN middlePointIndexCache),
                before |-> Len(Vertices)]
    IN  /\ Vertices' = r.Vertices
        /\ middlePointIndexCache' = r.Cache
        /\ mid' = [mid EXCEPT ![field] = r.ret]
        /\ requests' = requests \cup {[p1 |-> p1, p2 |-> p2, ret |-> r.ret]}
        /\ lastRequest' = req
        /\ pc' = next
        /\ UNCHANGED <<shipVars, inputVars, bellVars, cfgVars, genVars, Triangles, newTriangles, triIndex, subdivPass,
                       passStartVertices>>

IcoMidA ==
    /\ pc = "tri_a"
    /\ triIndex + 2 < Len(Triangles)
    /\ MiddlePointCall(At(Triangles, triIndex), At(Triangles, triIndex + 1), "a", "tri_b")

IcoMidB ==
    /\ pc = "tri_b"
    /\ MiddlePointCall(At(Triangles, triIndex + 1), At(Triangles, triIndex + 2), "b", "tri_c")

IcoMidC ==
    /\ pc = "tri_c"
    /\ MiddlePointCall(At(Triangles, triIndex + 2), At(Triangles, triIndex), "c", "tri_emit")

\* faulty variant: the second child is added as (v2, a, b)
IcoEmitSecondChildTurned ==
    /\ pc = "tri_emit"
    /\ newTriangles' = newTriangles \o
           The({ <<v[1], mid.a, mid.c,  v[2], mid.a, mid.b,  v[3], mid.c, mid.b,
                   mid.a, mid.b, mid.c>>
                 : v \in {<<At(Triangles, triIndex), At(Triangles, triIndex + 1),
                            At(Triangles, triIndex + 2)>>} })
    /\ triIndex' = triIndex + 3
    /\ pc' = "tri_a"
    /\ UNCHANGED <<shipVars, inputVars, bellVars, cfgVars, genVars, Vertices, Triangles, middlePointIndexCache, subdivPass, mid,
                   passStartVertices, requests, lastRequest>>

\* the four child triangles are added, the loop index advances
IcoEmit ==
    /\ pc = "tri_emit"
    /\ newTriangles' = newTriangles \o
           ChildTriangles(At(Triangles, triIndex), At(Triangles, triIndex + 1),
                          At(Triangles, triIndex + 2), mid.a, mid.b, mid.c)
    /\ triIndex' = triIndex + 3
    /\ pc' = "tri_a"
    /\ UNCHANGED <<shipVars, inputVars, bellVars, cfgVars, genVars, Vertices, Triangles, middlePointIndexCache, subdivPass, mid,
                   passStartVertices, requests, lastRequest>>

\* Triangles = MoveTemp(newTriangles)
IcoPassEnd ==
    /\ pc = "tri_a"
    /\ ~(triIndex + 2 < Len(Triangles))
    /\ Triangles' = newTriangles
    /\ subdivPass' = subdivPass + 1
    /\ pc' = "ico_loop"
    /\ UNCHANGED <<shipVars, inputVars, bellVars, cfgVars, genVars, Vertices, middlePointIndexCache, newTriangles, triIndex, mid,
                   passStartVertices, requests, lastRequest>>

\* the final normalization of BuildBaseIcosphere
IcoFinish ==
    /\ pc = "ico_loop"
    /\ ~(subdivPass < Subdivisions)
    /\ Vertices' = NormalizeVertices(Vertices)
    /\ pc' = "ico_built"
    /\ UNCHANGED <<shipVars, inputVars, bellVars, cfgVars, genVars, Triangles, middlePointIndexCache, newTriangles, triIndex,
                   subdivPass, mid, passStartVertices, requests, lastRequest>>

IcoNext ==
    \/ IcoCreate
    \/ IcoPassBegin
    \/ IcoMidA
    \/ IcoMidB
    \/ IcoMidC
    \/ IcoEmit
    \/ IcoPassEnd
    \/ IcoFinish

SpecIco == IcoInit /\ [][IcoNext]_vars

\* ------------------------------------------------------------------------
\* GenerateAsteroid, called by BeginPlay
\* ------------------------------------------------------------------------
\* configurations explored
RadiusRanges == {<<ONE, 2 * ONE>>}

Densities == {2 * ONE}

GlobalSeeds == {-1, 5}

LayerChoices ==
    { [Scale |-> ONE \div 10, Intensity |-> 8 * ONE, Seed |-> 42],
      [Scale |-> ONE \div 10, Intensity |-> 8 * ONE, Seed |-> -1] }

LayerLists == UNION { [1..n -> LayerChoices] : n \in 0..MaxLayers }

DisplacementFractions == {ONE \div 2, ONE}

Init ==
    /\ ShipConstructed
    /\ TrackDefaults
    /\ InputConstructed
    /\ BellConstructed
    /\ Subdivisions \in 0..MaxSubdivisions
    /\ \E rr \in RadiusRanges : MinRadius = rr[1] /\ MaxRadius = rr[2]
    /\ Density \in Densities
    /\ GlobalSeed \in GlobalSeeds
    /\ NoiseLayers \in LayerLists
    /\ MaxDisplacementFraction \in DisplacementFractions
    /\ bEnablePhysics \in BOOLEAN
    /\ int32OverflowWraps \in BOOLEAN
    /\ pc = "begin_play"
    /\ Vertices = <<>>
    /\ Triangles = <<>>
    /\ middlePointIndexCache = EmptyCache
    /\ newTriangles = <<>>
    /\ triIndex = 0
    /\ subdivPass = 0
    /\ mid = NoMid
    /\ passStartVertices = <<>>
    /\ requests = {}
    /\ lastRequest = NoRequest
    /\ Constructed
    /\ runs = 1
    /\ prev = NoPrev

\* faulty variant: the picked global seed is written back to the configuration
PickSeedsStoringSeed ==
    /\ pc = "begin_play"
    /\ \E r \in RandDraws :
          LET used == PickGlobalSeed(GlobalSeed, r)
          IN  /\ UsedGlobalSeed' = used
              /\ GlobalSeed' = used
              /\ LayerSeeds' = ResolveLayerSeeds(used, NoiseLayers, int32OverflowWraps)
    /\ pc' = "build"
    /\ UNCHANGED <<shipVars, inputVars, bellVars, Subdivisions, MinRadius, MaxRadius, Density, NoiseLayers,
                   MaxDisplacementFraction, bEnablePhysics, icoLocals, Vertices, Triangles,
                   ChosenRadius, layerIndex, AsteroidStats, ProcMesh, received, unitVertices,
                   layerStartVertices, displacements, usedSeeds, runs, prev,
                   int32OverflowWraps>>

\* lines 96-116: pick the global seed, prepare the per-layer seeds
PickSeeds ==
    /\ pc = "begin_play"
    /\ \E r \in RandDraws :
          LET used == PickGlobalSeed(GlobalSeed, r)
          IN  /\ UsedGlobalSeed' = used
              /\ LayerSeeds' = ResolveLayerSeeds(used, NoiseLayers, int32OverflowWraps)
    /\ pc' = "build"
    /\ UNCHANGED <<shipVars, inputVars, bellVars, cfgVars, icoLocals, Vertices, Triangles, ChosenRadius, layerIndex,
                   AsteroidStats, ProcMesh, received, unitVertices, layerStartVertices,
                   displacements, usedSeeds, runs, prev, int32OverflowWraps>>

\* lines 118-121: build the normalized base icosphere
Build ==
    /\ pc = "build"
    /\ \E r \in {BuildBaseIcosphere(Subdivisions)} :
           /\ Vertices' = r.Vertices
           /\ Triangles' = r.Triangles
           /\ unitVertices' = r.Vertices
    /\ layerIndex' = 0
    /\ pc' = "noise"
    /\ UNCHANGED <<shipVars, inputVars, bellVars, cfgVars, icoLocals, UsedGlobalSeed, LayerSeeds, ChosenRadius,
                   AsteroidStats, ProcMesh, received, layerStartVertices,
                   displacements, usedSeeds, runs, prev, int32OverflowWraps>>

\* faulty variant: every layer samples the noise and takes the normal at the
\* vertex of the unit sphere, and only the displacements add up
NoiseLayerStepFromUnitSphere ==
    /\ pc = "noise"
    /\ Len(Vertices) # 0
    /\ layerIndex < Len(NoiseLayers)
    /\ \E r \in RandDraws :
          LET Layer == At(NoiseLayers, layerIndex)
              seed == IF IsValidIndex(LayerSeeds, layerIndex)
                      THEN At(LayerSeeds, layerIndex) ELSE r
          IN  \E res \in {ApplyNoiseLayer(unitVertices, Layer, seed, MaxDisplacementFraction)} :
                /\ Vertices' = [i \in 1..Len(Vertices) |->
                                   VAdd(Vertices[i], VSub(res[i].V, unitVertices[i]))]
                /\ displacements' = [i \in 1..Len(Vertices) |-> res[i].displacement]
                /\ usedSeeds' = Append(usedSeeds, seed)
    /\ layerStartVertices' = Vertices
    /\ layerIndex' = layerIndex + 1
    /\ UNCHANGED <<shipVars, inputVars, bellVars, cfgVars, icoLocals, pc, Triangles, UsedGlobalSeed, LayerSeeds,
                   ChosenRadius, AsteroidStats, ProcMesh, received, unitVertices,
                   runs, prev, int32OverflowWraps>>

\* ApplyNoiseLayers: one iteration of the layer loop (lines 282-317)
NoiseLayerStep ==
    /\ pc = "noise"
    /\ Len(Vertices) # 0
    /\ layerIndex < Len(NoiseLayers)
    /\ \E r \in RandDraws :
          LET Layer == At(NoiseLayers, layerIndex)
              seed == IF IsValidIndex(LayerSeeds, layerIndex)
                      THEN At(LayerSeeds, layerIndex) ELSE r
          IN  \E res \in {ApplyNoiseLayer(Vertices, Layer, seed, MaxDisplacementFraction)} :
                /\ Vertices' = [i \in 1..Len(Vertices) |-> res[i].V]
                /\ displacements' = [i \in 1..Len(Vertices) |-> res[i].displacement]
                /\ usedSeeds' = Append(usedSeeds, seed)
    /\ layerStartVertices' = Vertices
    /\ layerIndex' = layerIndex + 1
    /\ UNCHANGED <<shipVars, inputVars, bellVars, cfgVars, icoLocals, pc, Triangles, UsedGlobalSeed, LayerSeeds,
                   ChosenRadius, AsteroidStats, ProcMesh, received, unitVertices,
                   runs, prev, int32OverflowWraps>>

\* faulty variant: the vertices go on to the scaling as the layers left them
RenormalizeLeftOut ==
    /\ pc = "noise"
    /\ Len(Vertices) = 0 \/ ~(layerIndex < Len(NoiseLayers))
    /\ pc' = "radius"
    /\ UNCHANGED <<shipVars, inputVars, bellVars, cfgVars, icoLocals, Vertices, Triangles, UsedGlobalSeed, LayerSeeds,
                   ChosenRadius, layerIndex, AsteroidStats, ProcMesh, received, unitVertices,
                   layerStartVertices, displacements, usedSeeds, runs, prev,
                   int32OverflowWraps>>

\* ApplyNoiseLayers returns; line 127: NormalizeVertices
Renormalize ==
    /\ pc = "noise"
    /\ Len(Vertices) = 0 \/ ~(layerIndex < Len(NoiseLayers))
    /\ Vertices' = NormalizeVertices(Vertices)
    /\ pc' = "radius"
    /\ UNCHANGED <<shipVars, inputVars, bellVars, cfgVars, icoLocals, Triangles, UsedGlobalSeed, LayerSeeds, ChosenRadius,
                   layerIndex, AsteroidStats, ProcMesh, received, unitVertices,
                   layerStartVertices, displacements, usedSeeds, runs, prev,
                   int32OverflowWraps>>

\* line 130: ChosenRadius = FMath::RandRange(MinRadius, MaxRadius)
ChooseRadius ==
    /\ pc = "radius"
    /\ \E f \in FRandDraws : ChosenRadius' = FRandRange(MinRadius, MaxRadius, f)
    /\ pc' = "scale"
    /\ UNCHANGED <<shipVars, inputVars, bellVars, cfgVars, icoLocals, Vertices, Triangles, UsedGlobalSeed, LayerSeeds,
                   layerIndex, AsteroidStats, ProcMesh, received, unitVertices,
                   layerStartVertices, displacements, usedSeeds, runs, prev,
                   int32OverflowWraps>>

\* lines 133-136: V *= ChosenRadius
ScaleToRadius ==
    /\ pc = "scale"
    /\ Vertices' = [i \in 1..Len(Vertices) |-> VScale(Vertices[i], ChosenRadius)]
    /\ pc' = "mesh"
    /\ UNCHANGED <<shipVars, inputVars, bellVars, cfgVars, icoLocals, Triangles, UsedGlobalSeed, LayerSeeds, ChosenRadius,
                   layerIndex, AsteroidStats, ProcMesh, received, unitVertices,
                   layerStartVertices, displacements, usedSeeds, runs, prev,
                   int32OverflowWraps>>

\* line 139: CreateMeshFromData(Vertices, Triangles, false)
CreateMeshFromData ==
    /\ pc = "mesh"
    /\ ProcMesh' = [ProcMesh EXCEPT
                       !.Sections = <<MeshSection(Vertices, Triangles, FALSE)>>]
    /\ pc' = "convex"
    /\ UNCHANGED <<shipVars, inputVars, bellVars, cfgVars, icoLocals, Vertices, Triangles, UsedGlobalSeed, LayerSeeds,
                   ChosenRadius, layerIndex, AsteroidStats, received, unitVertices,
                   layerStartVertices, displacements, usedSeeds, runs, prev,
                   int32OverflowWraps>>

\* lines 142-144: clear the convex hulls, add one from the vertices
BuildConvexCollision ==
    /\ pc = "convex"
    /\ ProcMesh' = [ProcMesh EXCEPT !.ConvexMeshes = <<Vertices>>,
                                    !.ConvexCleared = @ + 1,
                                    !.CollisionEnabled = "QueryAndPhysics"]
    /\ pc' = "stats"
    /\ UNCHANGED <<shipVars, inputVars, bellVars, cfgVars, icoLocals, Vertices, Triangles, UsedGlobalSeed, LayerSeeds,
                   ChosenRadius, layerIndex, AsteroidStats, received, unitVertices,
                   layerStartVertices, displacements, usedSeeds, runs, prev,
                   int32OverflowWraps>>

\* lines 147-148: CalculateStats, then record the seeds
ComputeStats ==
    /\ pc = "stats"
    /\ AsteroidStats' = [CalculateStats(ChosenRadius, Density) EXCEPT
                            !.NoiseLayerSeeds = LayerSeeds]
    /\ pc' = "physics"
    /\ UNCHANGED <<shipVars, inputVars, bellVars, cfgVars, icoLocals, Vertices, Triangles, UsedGlobalSeed, LayerSeeds,
                   ChosenRadius, layerIndex, ProcMesh, received, unitVertices,
                   layerStartVertices, displacements, usedSeeds, runs, prev,
                   int32OverflowWraps>>

\* faulty variant: the mass is handed over whatever bEnablePhysics is
ConfigurePhysicsAlways ==
    /\ pc = "physics"
    /\ ProcMesh' = [ProcMesh EXCEPT !.bSimulatePhysics = TRUE,
                                    !.bOverrideMass = TRUE,
                                    !.MassInKg = AsteroidStats.Mass,
                                    !.PhysicsCalls = @ + 2]
    /\ pc' = "broadcast"
    /\ UNCHANGED <<shipVars, inputVars, bellVars, cfgVars, icoLocals, Vertices, Triangles, UsedGlobalSeed, LayerSeeds,
                   ChosenRadius, layerIndex, AsteroidStats, received, unitVertices,
                   layerStartVertices, displacements, usedSeeds, runs, prev,
                   int32OverflowWraps>>

\* lines 151-155: hand the mass to the physics body if physics is enabled
ConfigurePhysics ==
    /\ pc = "physics"
    /\ ProcMesh' = IF bEnablePhysics
                   THEN [ProcMesh EXCEPT !.bSimulatePhysics = TRUE,
                                         !.bOverrideMass = TRUE,
                                         !.MassInKg = AsteroidStats.Mass,
                                         !.PhysicsCalls = @ + 2]
                   ELSE ProcMesh
    /\ pc' = "broadcast"
    /\ UNCHANGED <<shipVars, inputVars, bellVars, cfgVars, icoLocals, Vertices, Triangles, UsedGlobalSeed, LayerSeeds,
                   ChosenRadius, layerIndex, AsteroidStats, received, unitVertices,
                   layerStartVertices, displacements, usedSeeds, runs, prev,
                   int32OverflowWraps>>

\* faulty variant: the payload is sent without the resolved seeds
BroadcastPayloadWithoutSeeds(Stats) == [Stats EXCEPT !.NoiseLayerSeeds = <<>>]

\* the payload OnAsteroidGenerated.Broadcast hands to every subscriber
BroadcastPayload(Stats) == Stats

\* line 158: OnAsteroidGenerated.Broadcast(AsteroidStats)
Broadcast ==
    /\ pc = "broadcast"
    /\ received' = [sub \in Subscribers |->
                       Append(received[sub], BroadcastPayload(AsteroidStats))]
    /\ pc' = "done"
    /\ UNCHANGED <<shipVars, inputVars, bellVars, cfgVars, icoLocals, Vertices, Triangles, UsedGlobalSeed, LayerSeeds,
                   ChosenRadius, layerIndex, AsteroidStats, ProcMesh, unitVertices,
                   layerStartVertices, displacements, usedSeeds, runs, prev,
                   int32OverflowWraps>>

\* a second, independent run: another instance with the same configuration
\* is constructed; the outputs of the finished run are kept for comparison
NextRun ==
    /\ pc = "done"
    /\ runs < MaxRuns
    /\ prev' = [Vertices |-> Vertices, Triangles |-> Triangles,
                AsteroidStats |-> AsteroidStats, LayerSeeds |-> LayerSeeds,
                UsedGlobalSeed |-> UsedGlobalSeed]
    /\ runs' = runs + 1
    /\ Vertices' = <<>>
    /\ Triangles' = <<>>
    /\ UsedGlobalSeed' = 0
    /\ LayerSeeds' = <<>>
    /\ ChosenRadius' = 0
    /\ layerIndex' = 0
    /\ AsteroidStats' = DefaultStats
    /\ ProcMesh' = DefaultProcMesh
    /\ received' = [sub \in Subscribers |-> <<>>]
    /\ unitVertices' = <<>>
    /\ layerStartVertices' = <<>>
    /\ displacements' = <<>>
    /\ usedSeeds' = <<>>
    /\ pc' = "begin_play"
    /\ UNCHANGED <<shipVars, inputVars, bellVars, cfgVars, icoLocals, int32OverflowWraps>>

Next ==
    \/ PickSeeds
    \/ Build
    \/ NoiseLayerStep
    \/ Renormalize
    \/ ChooseRadius
    \/ ScaleToRadius
    \/ CreateMeshFromData
    \/ BuildConvexCollision
    \/ ComputeStats
    \/ ConfigurePhysics
    \/ Broadcast
    \/ NextRun

Spec == Init /\ [][Next]_vars

\* ------------------------------------------------------------------------
\* GenerateAsteroid on configurations without displacement: no layer, or
\* layers of intensity 0; the radius range may be degenerate
\* ------------------------------------------------------------------------
PlainRadiusRanges == {<<ONE, ONE>>, <<ONE, 2 * ONE>>}

PlainLayer == [Scale |-> ONE \div 10, Intensity |-> 0, Seed |-> 42]

PlainLayerLists == { [i \in 1..n |-> PlainLayer] : n \in 0..MaxPlainLayers }

InitPlain ==
    /\ ShipConstructed
    /\ TrackDefaults
    /\ InputConstructed
    /\ BellConstructed
    /\ Subdivisions \in 0..MaxPlainSubdivisions
    /\ \E rr \in PlainRadiusRanges : MinRadius = rr[1] /\ MaxRadius = rr[2]
    /\ Density \in Densities
    /\ GlobalSeed = -1
    /\ NoiseLayers \in PlainLayerLists
    /\ MaxDisplacementFraction = ONE \div 2
    /\ bEnablePhysics = TRUE
    /\ int32OverflowWraps \in BOOLEAN
    /\ pc = "begin_play"
    /\ Vertices = <<>>
    /\ Triangles = <<>>
    /\ middlePointIndexCache = EmptyCache
    /\ newTriangles = <<>>
    /\ triIndex = 0
    /\ subdivPass = 0
    /\ mid = NoMid
    /\ passStartVertices = <<>>
    /\ requests = {}
    /\ lastRequest = NoRequest
    /\ Constructed
    /\ runs = 1
    /\ prev = NoPrev

SpecPlain == InitPlain /\ [][Next]_vars

\* ------------------------------------------------------------------------
\* AShipPawn camera mode, AAgnosticController orient-opposite input
\* ------------------------------------------------------------------------
\* the asteroid side at rest while the ship and its controller run
AsteroidIdle ==
    /\ Subdivisions = 0
    /\ MinRadius = 250 * ONE
    /\ MaxRadius = 1000 * ONE
    /\ Density = 7874 * ONE
    /\ GlobalSeed = -1
    /\ NoiseLayers = <<DefaultLayer>>
    /\ MaxDisplacementFraction = ONE \div 2
    /\ bEnablePhysics = TRUE
    /\ int32OverflowWraps = FALSE
    /\ pc = "idle"
    /\ Vertices = <<>>
    /\ Triangles = <<>>
    /\ middlePointIndexCache = EmptyCache
    /\ newTriangles = <<>>
    /\ triIndex = 0
    /\ subdivPass = 0
    /\ mid = NoMid
    /\ passStartVertices = <<>>
    /\ requests = {}
    /\ lastRequest = NoRequest
    /\ Constructed
    /\ runs = 1
    /\ prev = NoPrev

asteroidVars == <<cfgVars, pc, Vertices, Triangles, icoLocals, genVars>>

\* the modes left by the most recent ToggleCameraMode calls, oldest first
Remember(trail, mode) ==
    IF Len(trail) < MaxTrail THEN Append(trail, mode)
    ELSE Append(Tail(trail), mode)

\* the switch of AShipPawn::ToggleCameraMode
NextCameraMode(mode) ==
    CASE mode = "Chase" -> "Chase2"
      [] mode = "Chase2" -> "Nose"
      [] OTHER -> "Chase"

\* AShipPawn::BeginPlay: FOLLOW_CAM->SetActive(true), then ApplyCameraMode(true)
ShipBeginPlay ==
    /\ ~shipPlaying
    /\ shipPlaying' = TRUE
    /\ NOSE_CAM' = UseNose(CameraMode)
    /\ FOLLOW_CAM' = (~UseNose(CameraMode) /\ ~UseChase2(CameraMode))
    /\ FOLLOW_CAM2' = UseChase2(CameraMode)
    /\ NoseStickYaw' = ActorYaw
    /\ UNCHANGED <<asteroidVars, inputVars, bellVars, CameraMode, CameraTrackMaxSeconds, bCameraTrackActive,
                   CameraTrackAccumulated, CameraPivotYaw, ActorYaw, bOrientOpposite,
                   toggleTrail, startedSinceConsume, reportsOfStarted, lastConsume,
                   lastTrackTick>>

\* faulty variant: FOLLOW_CAM is switched as when there were two modes
ToggleCameraModeTwoCameras ==
    /\ shipPlaying
    /\ \E mode \in {NextCameraMode(CameraMode)} :
          /\ CameraMode' = mode
          /\ NOSE_CAM' = UseNose(mode)
          /\ FOLLOW_CAM' = ~UseNose(mode)
          /\ FOLLOW_CAM2' = UseChase2(mode)
          /\ NoseStickYaw' = ActorYaw
          /\ toggleTrail' = Remember(toggleTrail, mode)
    /\ UNCHANGED <<asteroidVars, inputVars, bellVars, shipPlaying, CameraTrackMaxSeconds, bCameraTrackActive,
                   CameraTrackAccumulated, CameraPivotYaw, ActorYaw, bOrientOpposite,
                   startedSinceConsume, reportsOfStarted, lastConsume, lastTrackTick>>

\* AShipPawn::ToggleCameraMode, with ApplyCameraMode(true); called from the
\* input of a ship in play
ToggleCameraMode ==
    /\ shipPlaying
    /\ \E mode \in {NextCameraMode(CameraMode)} :
          /\ CameraMode' = mode
          /\ NOSE_CAM' = UseNose(mode)
          /\ FOLLOW_CAM' = (~UseNose(mode) /\ ~UseChase2(mode))
          /\ FOLLOW_CAM2' = UseChase2(mode)
          /\ NoseStickYaw' = ActorYaw
          /\ toggleTrail' = Remember(toggleTrail, mode)
    /\ UNCHANGED <<asteroidVars, inputVars, bellVars, shipPlaying, CameraTrackMaxSeconds, bCameraTrackActive,
                   CameraTrackAccumulated, CameraPivotYaw, ActorYaw, bOrientOpposite,
                   startedSinceConsume, reportsOfStarted, lastConsume, lastTrackTick>>

\* AAgnosticController::OnOrientOppositeStarted
OnOrientOppositeStarted ==
    /\ bOrientOpposite' = TRUE
    /\ startedSinceConsume' = TRUE
    /\ reportsOfStarted' = 0
    /\ UNCHANGED <<asteroidVars, inputVars, bellVars, shipPlaying, CameraMode, NOSE_CAM, FOLLOW_CAM, FOLLOW_CAM2,
                   NoseStickYaw, CameraTrackMaxSeconds, bCameraTrackActive,
                   CameraTrackAccumulated, CameraPivotYaw, ActorYaw, toggleTrail,
                   lastConsume, lastTrackTick>>

\* AAgnosticController::OnOrientOppositeCompleted
OnOrientOppositeCompleted ==
    /\ bOrientOpposite' = FALSE
    /\ UNCHANGED <<asteroidVars, inputVars, bellVars, shipPlaying, CameraMode, NOSE_CAM, FOLLOW_CAM, FOLLOW_CAM2,
                   NoseStickYaw, CameraTrackMaxSeconds, bCameraTrackActive,
                   CameraTrackAccumulated, CameraPivotYaw, ActorYaw, toggleTrail,
                   startedSinceConsume, reportsOfStarted, lastConsume, lastTrackTick>>

\* a read of the flag that leaves it as it is
FlagKeptAfterConsume(Was) == Was

\* the flag ConsumeOrientOpposite leaves: InputState.bOrientOpposite = false
FlagAfterConsume(Was) == FALSE

\* AAgnosticController::ConsumeOrientOpposite
ConsumeOrientOpposite ==
    /\ \E Was \in {bOrientOpposite} :
          /\ bOrientOpposite' = FlagAfterConsume(Was)
          /\ lastConsume' = [called |-> TRUE, flagBefore |-> bOrientOpposite,
                             returned |-> Was, flagAfter |-> FlagAfterConsume(Was),
                             startedSince |-> startedSinceConsume]
          /\ reportsOfStarted' = IF Was THEN Min(reportsOfStarted + 1, MaxReports)
                                 ELSE reportsOfStarted
    /\ startedSinceConsume' = FALSE
    /\ UNCHANGED <<asteroidVars, inputVars, bellVars, shipPlaying, CameraMode, NOSE_CAM, FOLLOW_CAM, FOLLOW_CAM2,
                   NoseStickYaw, CameraTrackMaxSeconds, bCameraTrackActive,
                   CameraTrackAccumulated, CameraPivotYaw, ActorYaw, toggleTrail,
                   lastTrackTick>>

\* FRotator::NormalizeAxis: an angle brought into (-180, 180] degrees
NormalizeAxis(Angle) ==
    The({ IF c > 180 * ONE THEN c - 360 * ONE ELSE c : c \in {Angle % (360 * ONE)} })

\* turns of the ship between two frames, in degrees
ShipTurns == {90 * ONE}

\* the physics body turns; CameraPivot and NoseStick are attached to the
\* root component and turn with it
ShipRotates ==
    /\ \E turn \in ShipTurns :
          /\ ActorYaw' = NormalizeAxis(ActorYaw + turn)
          /\ CameraPivotYaw' = NormalizeAxis(CameraPivotYaw + turn)
          /\ NoseStickYaw' = NormalizeAxis(NoseStickYaw + turn)
    /\ UNCHANGED <<asteroidVars, inputVars, bellVars, shipPlaying, CameraMode, NOSE_CAM, FOLLOW_CAM, FOLLOW_CAM2,
                   CameraTrackMaxSeconds, bCameraTrackActive, CameraTrackAccumulated,
                   bOrientOpposite, toggleTrail, startedSinceConsume, reportsOfStarted,
                   lastConsume, lastTrackTick>>

ShipInit ==
    /\ AsteroidIdle
    /\ ShipSpawned
    /\ TrackDefaults
    /\ InputConstructed
    /\ BellConstructed

ShipNext ==
    \/ ShipBeginPlay
    \/ ToggleCameraMode
    \/ OnOrientOppositeStarted
    \/ OnOrientOppositeCompleted
    \/ ConsumeOrientOpposite
    \/ ShipRotates

SpecShip == ShipInit /\ [][ShipNext]_vars

\* ------------------------------------------------------------------------
\* AShipPawn::TickCameraTrack
\* ------------------------------------------------------------------------
\* FMath::FindDeltaAngleDegrees: the shortest turn from A1 to A2
FindDeltaAngleDegrees(A1, A2) ==
    The({ IF Delta > 180 * ONE THEN Delta - 360 * ONE
          ELSE IF Delta < -(180 * ONE) THEN Delta + 360 * ONE
          ELSE Delta : Delta \in {A2 - A1} })

\* FMath::RInterpTo on the yaw axis
RInterpTo(Current, Target, DeltaTime, InterpSpeed) ==
    IF DeltaTime = 0 \/ Current = Target THEN Current
    ELSE IF InterpSpeed <= 0 THEN Target
    ELSE The({ IF Delta = 0 THEN Target
               ELSE NormalizeAxis(Current
                        + FMul(Delta, Clamp(FMul(InterpSpeed, DeltaTime), 0, ONE)))
               : Delta \in {NormalizeAxis(Target - Current)} })

\* SegmentSeconds: the share of CameraTrackMaxSeconds the remaining yaw takes,
\* at least 0.01 s
SegmentSeconds(RemainingYaw, MaxSeconds) ==
    Clamp(FMul(RDiv(RemainingYaw * ONE, 180 * ONE), MaxSeconds), ONE \div 100, MaxSeconds)

\* InterpSpeed = 1 / SegmentSeconds
InterpSpeed(Segment) ==
    IF Segment > 0 THEN RDiv(ONE * ONE, Segment) ELSE 1000 * ONE

\* the yaw TickCameraTrack gives the pivot while the input is held
TrackedYaw(Current, Target, DeltaSeconds, MaxSeconds) ==
    RInterpTo(Current, Target, DeltaSeconds,
              InterpSpeed(SegmentSeconds(Abs(FindDeltaAngleDegrees(Current, Target)),
                                         MaxSeconds)))

\* frame times: 200 and 50 frames a second
TickDeltas == {ONE \div 200, ONE \div 50}

\* values of CameraTrackMaxSeconds (EditAnywhere, at least 0.01)
TrackMaxChoices == {ONE \div 10}

\* yaw of CameraPivot relative to the ship when play begins
PivotYaws == {0, 90 * ONE, 180 * ONE}

\* AShipPawn::TickCameraTrack(DeltaSeconds, bTrackHeld); CameraPivot exists
TickCameraTrack ==
    /\ \E DeltaSeconds \in TickDeltas, bTrackHeld \in BOOLEAN :
          IF bTrackHeld
          THEN \E before \in {IF bCameraTrackActive THEN CameraTrackAccumulated ELSE 0} :
               \E NewYaw \in {TrackedYaw(CameraPivotYaw, ActorYaw, DeltaSeconds,
                                         CameraTrackMaxSeconds)} :
                  /\ before < CameraTrackMaxSeconds + MaxOverrunTicks * (ONE \div 200)
                  /\ bCameraTrackActive' = TRUE
                  /\ CameraPivotYaw' = NewYaw
                  /\ CameraTrackAccumulated' = before + DeltaSeconds
                  /\ lastTrackTick' = [called |-> TRUE, held |-> TRUE,
                                       accumulatedBefore |-> before,
                                       rotated |-> NewYaw # CameraPivotYaw]
          ELSE /\ bCameraTrackActive' = FALSE
               /\ lastTrackTick' = [called |-> TRUE, held |-> FALSE,
                                    accumulatedBefore |-> CameraTrackAccumulated,
                                    rotated |-> FALSE]
               /\ UNCHANGED <<CameraPivotYaw, CameraTrackAccumulated>>
    /\ UNCHANGED <<asteroidVars, inputVars, bellVars, shipPlaying, CameraMode, NOSE_CAM, FOLLOW_CAM, FOLLOW_CAM2,
                   NoseStickYaw, CameraTrackMaxSeconds, ActorYaw, bOrientOpposite,
                   toggleTrail, startedSinceConsume, reportsOfStarted, lastConsume>>

TrackInit ==
    /\ AsteroidIdle
    /\ ShipConstructed
    /\ InputConstructed
    /\ BellConstructed
    /\ CameraTrackMaxSeconds \in TrackMaxChoices
    /\ CameraPivotYaw \in PivotYaws

TrackNext ==
    \/ TickCameraTrack
    \/ ShipRotates

SpecTrack == TrackInit /\ [][TrackNext]_vars

\* ------------------------------------------------------------------------
\* AAgnosticController input callbacks
\* ------------------------------------------------------------------------
\* raw axis values the input layer delivers, inside and outside [0, 1]
RawAxis == {-(2 * ONE), ONE \div 2, 2 * ONE}

\* the values the input layer hands to a callback: a key up or down, a
\* one-dimensional axis, a two-dimensional axis
InputActionValues ==
    { [type |-> "Boolean", X |-> x, Y |-> 0] : x \in {0, ONE} }
    \cup { [type |-> "Axis1D", X |-> x, Y |-> 0] : x \in RawAxis }
    \cup { [type |-> "Axis2D", X |-> x, Y |-> -x] : x \in {ONE \div 2, 2 * ONE} }

\* FInputActionValue::Get<bool>()
GetBool(Value) == Value.X # 0

\* FInputActionValue::Get<float>()
GetFloat(Value) == Value.X

\* the FVector2D OnLeftStick and OnRightStick store
StickValue(Value) ==
    IF Value.type = "Axis2D" THEN <<Value.X, Value.Y>>
    ELSE IF Value.type = "Axis1D" THEN <<GetFloat(Value), 0>>
    ELSE IF Value.type = "Boolean" THEN <<IF GetBool(Value) THEN ONE ELSE 0, 0>>
    ELSE <<0, 0>>

\* faulty variant: the raw thrust as delivered
ThrustValueUnclamped(Value) == GetFloat(Value)

\* FMath::Clamp(Value.Get<float>(), 0.f, 1.f)
ThrustValue(Value) == Clamp(GetFloat(Value), 0, ONE)

\* the value OnBoost stores
BoostValue(Value) ==
    IF Value.type = "Axis1D" THEN Clamp(GetFloat(Value), 0, ONE)
    ELSE IF Value.type = "Boolean" THEN (IF GetBool(Value) THEN ONE ELSE 0)
    ELSE 0

\* AAgnosticController::OnLeftStick
OnLeftStick ==
    /\ \E Value \in InputActionValues :
          /\ LeftStick' = StickValue(Value)
          /\ lastValue' = Value
    /\ lastCallback' = "OnLeftStick"
    /\ UNCHANGED <<asteroidVars, shipVars, bellVars, RightStick, Thrust, Boost>>

\* AAgnosticController::OnLeftStickComplete
OnLeftStickComplete ==
    /\ LeftStick' = <<0, 0>>
    /\ lastCallback' = "OnLeftStickComplete"
    /\ lastValue' = NoValue
    /\ UNCHANGED <<asteroidVars, shipVars, bellVars, RightStick, Thrust, Boost>>

\* AAgnosticController::OnRightStick
OnRightStick ==
    /\ \E Value \in InputActionValues :
          /\ RightStick' = StickValue(Value)
          /\ lastValue' = Value
    /\ lastCallback' = "OnRightStick"
    /\ UNCHANGED <<asteroidVars, shipVars, bellVars, LeftStick, Thrust, Boost>>

\* AAgnosticController::OnRightStickComplete
OnRightStickComplete ==
    /\ RightStick' = <<0, 0>>
    /\ lastCallback' = "OnRightStickComplete"
    /\ lastValue' = NoValue
    /\ UNCHANGED <<asteroidVars, shipVars, bellVars, LeftStick, Thrust, Boost>>

\* AAgnosticController::OnThrust
OnThrust ==
    /\ \E Value \in InputActionValues :
          /\ Thrust' = ThrustValue(Value)
          /\ lastValue' = Value
    /\ lastCallback' = "OnThrust"
    /\ UNCHANGED <<asteroidVars, shipVars, bellVars, LeftStick, RightStick, Boost>>

\* AAgnosticController::OnThrustComplete
OnThrustComplete ==
    /\ Thrust' = 0
    /\ lastCallback' = "OnThrustComplete"
    /\ lastValue' = NoValue
    /\ UNCHANGED <<asteroidVars, shipVars, bellVars, LeftStick, RightStick, Boost>>

\* AAgnosticController::OnBoost
OnBoost ==
    /\ \E Value \in InputActionValues :
          /\ Boost' = BoostValue(Value)
          /\ lastValue' = Value
    /\ lastCallback' = "OnBoost"
    /\ UNCHANGED <<asteroidVars, shipVars, bellVars, LeftStick, RightStick, Thrust>>

\* AAgnosticController::OnBoostComplete
OnBoostComplete ==
    /\ Boost' = 0
    /\ lastCallback' = "OnBoostComplete"
    /\ lastValue' = NoValue
    /\ UNCHANGED <<asteroidVars, shipVars, bellVars, LeftStick, RightStick, Thrust>>

InputInit ==
    /\ AsteroidIdle
    /\ ShipConstructed
    /\ TrackDefaults
    /\ InputConstructed
    /\ BellConstructed

InputNext ==
    \/ OnLeftStick
    \/ OnLeftStickComplete
    \/ OnRightStick
    \/ OnRightStickComplete
    \/ OnThrust
    \/ OnThrustComplete
    \/ OnBoost
    \/ OnBoostComplete

SpecInput == InputInit /\ [][InputNext]_vars

\* ------------------------------------------------------------------------
\* UExhaustBellController
\* ------------------------------------------------------------------------
\* FMath::Fmod(X, Y): the remainder has the sign of X
Fmod(X, Y) == IF X >= 0 THEN X % Y ELSE -((-X) % Y)

\* FMath::Lerp(A, B, Alpha) = A + Alpha * (B - A)
Lerp(A, B, Alpha) == A + FMul(Alpha, B - A)

\* UExhaustBellController::GetLT; hasController: the first player controller
\* is an AAgnosticController
GetLT(hasController) == IF hasController THEN Clamp(Thrust, 0, ONE) ELSE 0

\* faulty variant: the roll is accumulated without being wrapped
WrappedRollUnwrapped(Accum, DeltaDeg) == Accum + DeltaDeg

\* AccumRollDeg after Fmod(AccumRollDeg + DeltaDeg, 360) and the correction
\* of a negative remainder
WrappedRoll(Accum, DeltaDeg) ==
    LET r == Fmod(Accum + DeltaDeg, 360 * ONE)
    IN  IF r < 0 THEN r + 360 * ONE ELSE r

\* tuning values a Blueprint may set
ScaleRanges == { <<(9 * ONE) \div 10, (13 * ONE) \div 10>>, <<ONE \div 2, 2 * ONE>> }

\* degrees per second; the property is declared with ClampMin = "0"
RotationSpeeds == {360 * ONE, 400 * ONE}

\* frame times
BellDeltaTimes == {ONE \div 4}

\* UExhaustBellController::BeginPlay: the mesh reference resolves or not
BellBeginPlay ==
    /\ ~bellPlaying
    /\ bellPlaying' = TRUE
    /\ ExhaustBell' \in BOOLEAN
    /\ UNCHANGED <<asteroidVars, shipVars, inputVars, ScaleMin, ScaleMax, RotationSpeed,
                   AccumRollDeg, RelativeScale3D, lastTick>>

\* UExhaustBellController::TickComponent with a bell mesh
TickComponent ==
    /\ bellPlaying
    /\ ExhaustBell
    /\ \E DeltaTime \in BellDeltaTimes, hasController \in BOOLEAN :
          \E LT \in {Clamp(GetLT(hasController), 0, ONE)} :
             \E S \in {Lerp(ScaleMin, ScaleMax, LT)},
                DeltaDeg \in {FMul(FMul(LT, RotationSpeed), DeltaTime)} :
                /\ RelativeScale3D' = FMul(ONE, S)
                /\ AccumRollDeg' = WrappedRoll(AccumRollDeg, DeltaDeg)
                /\ lastTick' = [LT |-> LT, S |-> S, DeltaDeg |-> DeltaDeg, ticked |-> TRUE,
                                 called |-> TRUE]
    /\ UNCHANGED <<asteroidVars, shipVars, inputVars, ScaleMin, ScaleMax, RotationSpeed,
                   ExhaustBell, bellPlaying>>

\* UExhaustBellController::TickComponent without a bell mesh: early return
TickComponentNoBell ==
    /\ bellPlaying
    /\ ~ExhaustBell
    /\ lastTick' = [NoTick EXCEPT !.called = TRUE]
    /\ UNCHANGED <<asteroidVars, shipVars, inputVars, ScaleMin, ScaleMax, RotationSpeed,
                   ExhaustBell, bellPlaying, AccumRollDeg, RelativeScale3D>>

BellInit ==
    /\ AsteroidIdle
    /\ ShipConstructed
    /\ TrackDefaults
    /\ InputConstructed
    /\ \E sr \in ScaleRanges : ScaleMin = sr[1] /\ ScaleMax = sr[2]
    /\ RotationSpeed \in RotationSpeeds
    /\ BellUntouched

BellNext ==
    \/ BellBeginPlay
    \/ TickComponent
    \/ TickComponentNoBell
    \/ OnThrust
    \/ OnThrustComplete

SpecBell == BellInit /\ [][BellNext]_vars

\* ------------------------------------------------------------------------
\* Properties of the icosphere builder
\* ------------------------------------------------------------------------
RECURSIVE Pow4(_)
Pow4(n) == IF n <= 0 THEN 1 ELSE 4 * Pow4(n - 1)

\* the undirected edges of a triangle list
UniqueEdges(Tris) ==
    UNION { { {At(Tris, 3 * k), At(Tris, 3 * k + 1)},
              {At(Tris, 3 * k + 1), At(Tris, 3 * k + 2)},
              {At(Tris, 3 * k + 2), At(Tris, 3 * k)} } : k \in 0..(Len(Tris) \div 3 - 1) }

InPass == pc \in {"tri_a", "tri_b", "tri_c", "tri_emit"}

PassLoopDone == pc = "tri_a" /\ ~(triIndex + 2 < Len(Triangles))

\* C1: the built icosphere of level L has exactly 20 * 4^L triangles (index
\* list of length 60 * 4^L), and every completed subdivision pass has
\* multiplied the triangle count by exactly 4.
C1_TriangleCount ==
    /\ pc = "ico_loop" => Len(Triangles) = 60 * Pow4(subdivPass)
    /\ PassLoopDone => Len(newTriangles) = 4 * Len(Triangles)
    /\ pc = "ico_built" =>
          /\ Len(Triangles) = 60 * Pow4(Subdivisions)
          /\ Len(Triangles) \div 3 = 20 * Pow4(Subdivisions)
          /\ Triangles = BuildBaseIcosphere(Subdivisions).Triangles

C1_Witness == pc = "ico_built" /\ Subdivisions >= 1 /\ Len(Triangles) >= 240

\* C2: within one pass, every request for the same unordered edge returns
\* the same vertex index, a request for a cached edge appends nothing, and
\* the buffer has grown by exactly one vertex per distinct requested edge.
C2_SharedMidpoint ==
    InPass =>
       /\ \A r \in requests :
             {r.p1, r.p2} = {lastRequest.p1, lastRequest.p2} => r.ret = lastRequest.ret
       /\ lastRequest.ret >= 0 =>
             /\ lastRequest.hit => Len(Vertices) = lastRequest.before
             /\ ~lastRequest.hit => /\ Len(Vertices) = lastRequest.before + 1
                                    /\ lastRequest.ret = lastRequest.before
       /\ Len(Vertices) = Len(passStartVertices)
                          + Cardinality({ {r.p1, r.p2} : r \in requests })

\* an edge has been requested in both orders and the second request hit
C2_Witness ==
    /\ InPass
    /\ lastRequest.hit
    /\ [p1 |-> lastRequest.p2, p2 |-> lastRequest.p1, ret |-> lastRequest.ret] \in requests
    /\ lastRequest.p1 # lastRequest.p2

\* C3: a pass keeps every earlier vertex entry and appends one vertex per
\* unique undirected edge of the prior mesh, distinct edges getting distinct
\* new indices; the counts are 12, 42, 162 at levels 0, 1, 2.
C3_VertexGrowth ==
    /\ InPass =>
          /\ Len(Vertices) >= Len(passStartVertices)
          /\ SubSeq(Vertices, 1, Len(passStartVertices)) = passStartVertices
    /\ PassLoopDone =>
          /\ Len(Vertices) = Len(passStartVertices) + Cardinality(UniqueEdges(Triangles))
          /\ DOMAIN middlePointIndexCache
                = { MakeKey(x, y) : <<x, y>> \in
                      { <<At(Triangles, 3 * k + j), At(Triangles, 3 * k + ((j + 1) % 3))>> :
                           k \in 0..(Len(Triangles) \div 3 - 1), j \in 0..2 } }
          /\ \A k1, k2 \in DOMAIN middlePointIndexCache :
                k1 # k2 => middlePointIndexCache[k1] # middlePointIndexCache[k2]
          /\ { middlePointIndexCache[k] : k \in DOMAIN middlePointIndexCache }
                = Len(passStartVertices)..(Len(Vertices) - 1)
    /\ pc \in {"ico_loop", "ico_built"} =>
          /\ subdivPass = 0 => Len(Vertices) = 12
          /\ subdivPass = 1 => Len(Vertices) = 42
          /\ subdivPass = 2 => Len(Vertices) = 162

C3_Witness == PassLoopDone /\ Len(passStartVertices) = 42 /\ Len(Vertices) = 162


\* ------------------------------------------------------------------------
\* Properties of GenerateAsteroid
\* ------------------------------------------------------------------------
\* GetAsteroidStats(): what a caller reads from the actor
GetAsteroidStats == AsteroidStats

\* GetMass()
GetMass == AsteroidStats.Mass

\* tolerance of comparisons between fixed-point values
Tolerance == ONE \div 500

AllSeedsExplicit == \A i \in 1..Len(NoiseLayers) : NoiseLayers[i].Seed >= 0

SeedsResolved == pc # "begin_play"

AfterScale == pc \in {"mesh", "convex", "stats", "physics", "broadcast", "done"}

StatsComputed == pc \in {"physics", "broadcast", "done"}

\* some layer has been applied and the vertices are as it left them
LayerApplied == pc = "noise" /\ layerIndex > 0

Near(A, B) ==
    /\ Abs(A[1] - B[1]) <= Tolerance
    /\ Abs(A[2] - B[2]) <= Tolerance
    /\ Abs(A[3] - B[3]) <= Tolerance

\* the unclamped displacement the last applied layer computed for vertex i
RawDisplacement(i) ==
    LET Layer == At(NoiseLayers, layerIndex - 1)
        off == LayerOffsets(usedSeeds[Len(usedSeeds)])
        V == layerStartVertices[i]
    IN  DotProduct(NoiseOffset(V, Layer, off), Normalize(V))

\* C4: two runs with the same configuration, an explicit global seed and
\* explicit seeds on every layer end with the same vertices, the same
\* triangles and the same statistics.
C4_Determinism ==
    (pc = "done" /\ runs > 1 /\ GlobalSeed >= 0 /\ AllSeedsExplicit) =>
        /\ Vertices = prev.Vertices
        /\ Triangles = prev.Triangles
        /\ AsteroidStats = prev.AsteroidStats

\* C5: the scalar displacement a layer adds to a vertex is at most
\* MaxDisplacementFraction in absolute value, and the vertex moves by no
\* more than that distance.
C5_DisplacementClamp ==
    LayerApplied =>
        \A i \in 1..Len(Vertices) :
            /\ Abs(displacements[i]) <= MaxDisplacementFraction
            /\ Size(VSub(Vertices[i], layerStartVertices[i]))
                  <= MaxDisplacementFraction + Tolerance

\* a vertex whose unclamped displacement exceeded the limit was moved by
\* exactly the limit
C5_Witness ==
    /\ LayerApplied
    /\ \E i \in 1..Len(Vertices) :
          /\ Abs(RawDisplacement(i)) > MaxDisplacementFraction
          /\ Abs(displacements[i]) = MaxDisplacementFraction
          /\ Vertices[i] # layerStartVertices[i]

\* C6: after scaling, every vertex has magnitude ChosenRadius.
C6_OnChosenSphere ==
    AfterScale =>
        \A i \in 1..Len(Vertices) :
            Abs(Size(Vertices[i]) - ChosenRadius) <= 2 * Tolerance

\* C7: while the layers are applied every vertex is a strictly positive
\* multiple of its original unit direction, and the re-normalized vertex
\* is the original unit vertex.
C7_RadialOnly ==
    /\ pc = "noise" =>
          \A i \in 1..Len(Vertices) :
              /\ DotProduct(Vertices[i], unitVertices[i]) > 0
              /\ Near(Vertices[i],
                      VScale(unitVertices[i], DotProduct(Vertices[i], unitVertices[i])))
    /\ pc = "radius" =>
          \A i \in 1..Len(Vertices) : Near(Vertices[i], unitVertices[i])

C9_BroadcastOnce ==
    /\ pc # "done" => \A sub \in Subscribers : received[sub] = <<>>
    /\ pc = "done" =>
          \A sub \in Subscribers :
              /\ Len(received[sub]) = 1
              /\ received[sub][1] = GetAsteroidStats
              /\ received[sub][1].Radius = ChosenRadius
              /\ received[sub][1].NoiseLayerSeeds = LayerSeeds

C9_Witness ==
    /\ pc = "done"
    /\ Len(NoiseLayers) > 0
    /\ \A sub \in Subscribers : received[sub] = <<GetAsteroidStats>>
    /\ GetAsteroidStats.NoiseLayerSeeds # <<>>
    /\ GetMass > 0

RadiusChosen == pc \in {"scale", "mesh", "convex", "stats", "physics", "broadcast", "done"}

\* C11: the chosen radius lies in [MinRadius, MaxRadius] when the range is
\* not empty, and is exactly R0 when MinRadius = MaxRadius = R0, whatever
\* the process-wide random source returns.
C11_RadiusInRange ==
    (RadiusChosen /\ MinRadius <= MaxRadius) =>
        /\ MinRadius <= ChosenRadius
        /\ ChosenRadius <= MaxRadius
        /\ MinRadius = MaxRadius => ChosenRadius = MinRadius
        /\ (MinRadius = MaxRadius /\ runs > 1 /\ pc = "done") =>
               AsteroidStats.Radius = prev.AsteroidStats.Radius

\* a second run over a degenerate range ended with that radius
C11_Witness ==
    /\ pc = "done"
    /\ runs > 1
    /\ MinRadius = MaxRadius
    /\ ChosenRadius = MinRadius
    /\ AsteroidStats.Radius = MinRadius

NoDisplacementConfigured ==
    \A i \in 1..Len(NoiseLayers) : NoiseLayers[i].Intensity = 0

PhysicsDecided == pc \in {"broadcast", "done"}

\* C13: SetSimulatePhysics(true) and SetMassOverrideInKg(AsteroidStats.Mass)
\* are called exactly when bEnablePhysics is true; no physics call is made
\* otherwise; the statistics are computed and the event is broadcast in
\* both cases.
C13_PhysicsIffEnabled ==
    /\ ~PhysicsDecided => ProcMesh.PhysicsCalls = 0
    /\ PhysicsDecided =>
          /\ bEnablePhysics =>
                /\ ProcMesh.PhysicsCalls = 2
                /\ ProcMesh.bSimulatePhysics
                /\ ProcMesh.bOverrideMass
                /\ ProcMesh.MassInKg = AsteroidStats.Mass
          /\ ~bEnablePhysics =>
                /\ ProcMesh.PhysicsCalls = 0
                /\ ~ProcMesh.bSimulatePhysics
                /\ ~ProcMesh.bOverrideMass
                /\ ProcMesh.MassInKg = 0
          /\ AsteroidStats.Radius = ChosenRadius
          /\ AsteroidStats.Mass = CalculateStats(ChosenRadius, Density).Mass
    /\ pc = "done" => \A sub \in Subscribers : Len(received[sub]) = 1

\* a generation with physics disabled that computed a mass and broadcast it
C13_Witness ==
    /\ pc = "done"
    /\ ~bEnablePhysics
    /\ ProcMesh.PhysicsCalls = 0
    /\ AsteroidStats.Mass > 0
    /\ \A sub \in Subscribers : received[sub] = <<AsteroidStats>>

MeshUploaded == pc \in {"convex", "stats", "physics", "broadcast", "done"}

ConvexSubmitted == pc \in {"stats", "physics", "broadcast", "done"}

C15_RecordedSeedsAreUsedSeeds ==
    /\ pc = "noise" =>
          /\ layerIndex < Len(NoiseLayers) => IsValidIndex(LayerSeeds, layerIndex)
          /\ Len(usedSeeds) = layerIndex
          /\ usedSeeds = SubSeq(LayerSeeds, 1, layerIndex)
    /\ StatsComputed =>
          /\ Len(AsteroidStats.NoiseLayerSeeds) = Len(NoiseLayers)
          /\ AsteroidStats.NoiseLayerSeeds = usedSeeds
          /\ usedSeeds = LayerSeeds

\* two layers, one seeded explicitly and one from the global stream, were
\* applied with different seeds and both seeds are recorded
C15_Witness ==
    /\ pc = "done"
    /\ Len(NoiseLayers) = 2
    /\ \E i \in 1..2 : NoiseLayers[i].Seed < 0
    /\ \E i \in 1..2 : NoiseLayers[i].Seed >= 0
    /\ Len(usedSeeds) = 2
    /\ usedSeeds[1] # usedSeeds[2]
    /\ AsteroidStats.NoiseLayerSeeds = usedSeeds

\* ------------------------------------------------------------------------
\* Properties of the ship camera and of the controller input
\* ------------------------------------------------------------------------
\* the mode before and the mode after the i-th remembered ToggleCameraMode call
Calls == 1..(Len(toggleTrail) - 1)

\* C16 as stated: ToggleCameraMode cycles between two modes: from Chase one
\* call gives Nose, from Nose one call gives Chase, and two consecutive calls
\* return to the starting mode.
C16_TwoModeCycle ==
    \A i \in Calls :
        /\ toggleTrail[i] = "Chase" => toggleTrail[i + 1] = "Nose"
        /\ toggleTrail[i] = "Nose" => toggleTrail[i + 1] = "Chase"
        /\ i + 2 <= Len(toggleTrail) => toggleTrail[i + 2] = toggleTrail[i]

\* C17: ConsumeOrientOpposite returns the value the flag had and leaves the
\* flag false; every Started event is reported as true by at most one call,
\* and a call with no Started event since the call before it returns false.
C17_ConsumeReportsOnce ==
    /\ lastConsume.called =>
          /\ lastConsume.returned = lastConsume.flagBefore
          /\ lastConsume.flagAfter = FALSE
    /\ reportsOfStarted <= 1
    /\ (lastConsume.called /\ ~lastConsume.startedSince) => ~lastConsume.returned

\* a Started event was reported once, and the call after that one, with no
\* Started event in between, returned false
C17_Witness ==
    /\ lastConsume.called
    /\ ~lastConsume.startedSince
    /\ ~lastConsume.returned
    /\ reportsOfStarted = 1

\* C18 as stated: within one hold of the track input TickCameraTrack rotates
\* the camera pivot only while the accumulated time of the hold is below
\* CameraTrackMaxSeconds.
C18_TrackingStopsAtMaximum ==
    (lastTrackTick.called /\ lastTrackTick.held /\ lastTrackTick.rotated)
        => lastTrackTick.accumulatedBefore < CameraTrackMaxSeconds

\* ------------------------------------------------------------------------
\* Properties of the normals CreateMeshFromData uploads
\* ------------------------------------------------------------------------
\* the section CreateMeshFromData has just created
JustUploaded == pc = "convex"

\* what triangle t (0-based) adds to each of its corners: the cross product
\* of its edges as it is (byArea), or brought to unit length
Contribution(Vs, Tris, t, byArea) ==
    The({ IF byArea THEN cross ELSE GetSafeNormal(cross)
          : cross \in {CrossProduct(VSub(At(Vs, At(Tris, 3 * t + 1)), At(Vs, At(Tris, 3 * t))),
                                    VSub(At(Vs, At(Tris, 3 * t + 2)), At(Vs, At(Tris, 3 * t))))} })

\* the sums over the triangles lo .. hi-1
RECURSIVE SumContributions(_, _, _, _, _, _)
SumContributions(Sums, Vs, Tris, lo, hi, byArea) ==
    IF hi <= lo THEN Sums
    ELSE IF hi = lo + 1
    THEN The({ [Sums EXCEPT ![At(Tris, 3 * lo) + 1] = VAdd(@, c),
                            ![At(Tris, 3 * lo + 1) + 1] = VAdd(@, c),
                            ![At(Tris, 3 * lo + 2) + 1] = VAdd(@, c)]
               : c \in {Contribution(Vs, Tris, lo, byArea)} })
    ELSE The({ SumContributions(left, Vs, Tris, (lo + hi) \div 2, hi, byArea)
               : left \in {SumContributions(Sums, Vs, Tris, lo, (lo + hi) \div 2, byArea)} })

\* the normalized sums of all triangles of a section
WeightedNormals(Section, byArea) ==
    The({ Force([i \in 1..Len(Section.Vertices) |-> Normalize(sums[i])])
          : sums \in {SumContributions(
                         Force([i \in 1..Len(Section.Vertices) |-> ZeroVector]),
                         Section.Vertices, Section.Triangles, 0,
                         Len(Section.Triangles) \div 3, byArea)} })

\* two directions further apart than any rounding explains
DirectionTolerance == ONE \div 20

SameDirection(A, B) ==
    /\ Abs(A[1] - B[1]) <= DirectionTolerance
    /\ Abs(A[2] - B[2]) <= DirectionTolerance
    /\ Abs(A[3] - B[3]) <= DirectionTolerance

DoubleArea(t) ==
    Size(Contribution(ProcMesh.Sections[1].Vertices, ProcMesh.Sections[1].Triangles,
                      t, TRUE))

Replaced == 0..(triIndex \div 3 - 1)

\* corner k (0..2) of triangle j of the list the pass subdivides
Corner(j, k) == At(Triangles, 3 * j + k)

\* the index the pass gave the midpoint of the edge between two corners
MidpointOf(p1, p2) == middlePointIndexCache[<<Min(p1, p2), Max(p1, p2)>>]

\* child n (0..3) of triangle j in the new list
Child(j, n) ==
    <<At(newTriangles, 12 * j + 3 * n), At(newTriangles, 12 * j + 3 * n + 1),
      At(newTriangles, 12 * j + 3 * n + 2)>>

\* C20: each triangle (v1,v2,v3) is replaced by exactly the four triangles
\* (v1,a,c), (v2,b,a), (v3,c,b), (a,b,c), in that order and with that index
\* order, a, b, c being the midpoint indices of the edges (v1,v2), (v2,v3),
\* (v3,v1); no original triangle remains in the new list.
C20_ChildTriangles ==
    InPass =>
        /\ pc = "tri_a" => Len(newTriangles) = 4 * triIndex
        /\ \A j \in Replaced :
              \A a \in {MidpointOf(Corner(j, 0), Corner(j, 1))} :
              \A b \in {MidpointOf(Corner(j, 1), Corner(j, 2))} :
              \A c \in {MidpointOf(Corner(j, 2), Corner(j, 0))} :
                 /\ Child(j, 0) = <<Corner(j, 0), a, c>>
                 /\ Child(j, 1) = <<Corner(j, 1), b, a>>
                 /\ Child(j, 2) = <<Corner(j, 2), c, b>>
                 /\ Child(j, 3) = <<a, b, c>>
                 /\ At(Vertices, a) = MiddleVector(At(Vertices, Corner(j, 0)),
                                                   At(Vertices, Corner(j, 1)))
                 /\ At(Vertices, b) = MiddleVector(At(Vertices, Corner(j, 1)),
                                                   At(Vertices, Corner(j, 2)))
                 /\ At(Vertices, c) = MiddleVector(At(Vertices, Corner(j, 2)),
                                                   At(Vertices, Corner(j, 0)))
        /\ \A n \in 0..(Len(newTriangles) \div 3 - 1) :
              \E k \in 0..2 : At(newTriangles, 3 * n + k) >= Len(passStartVertices)

\* the second pass has replaced triangles whose corners are midpoints of the
\* first pass
C20_Witness ==
    /\ pc = "tri_a"
    /\ subdivPass = 1
    /\ triIndex >= 6
    /\ Len(newTriangles) >= 24

\* ------------------------------------------------------------------------
\* Order of the steps of GenerateAsteroid
\* ------------------------------------------------------------------------
\* the positions of a run in the order of the statements of GenerateAsteroid:
\* before the seeds, before the build, in ApplyNoiseLayers (left through the
\* re-normalization), before the radius choice, before the scaling, before
\* the upload, before the convex hull, before the statistics, before the
\* physics, before the broadcast, after it
StepOrder ==
    <<"begin_play", "build", "noise", "radius", "scale", "mesh", "convex", "stats",
      "physics", "broadcast", "done">>

\* position p is directly followed by position q
Follows(p, q) ==
    \E n \in 1..(Len(StepOrder) - 1) : StepOrder[n] = p /\ StepOrder[n + 1] = q

\* the vertex is as Normalize leaves a vertex
Renormalized(V) == Normalize(V) = V

\* what holds at every position of a run
OrderKept ==
    /\ pc \in {"begin_play", "build", "noise", "radius", "scale", "mesh"} =>
          ProcMesh.Sections = <<>>
    /\ pc \in {"begin_play", "build", "noise", "radius", "scale", "mesh", "convex"} =>
          ProcMesh.ConvexMeshes = <<>>
    /\ pc # "done" => \A sub \in Subscribers : received[sub] = <<>>
    /\ pc \in {"broadcast", "done"} =>
          /\ AsteroidStats.Radius = ChosenRadius
          /\ AsteroidStats.NoiseLayerSeeds = LayerSeeds
          /\ bEnablePhysics =>
                ProcMesh.bOverrideMass /\ ProcMesh.MassInKg = AsteroidStats.Mass
    /\ pc = "done" =>
          \A sub \in Subscribers : received[sub] = <<AsteroidStats>>

\* what a step from one position to another does
StepKept ==
    /\ pc' # pc => (Follows(pc, pc') \/ (pc = "done" /\ pc' = "begin_play"))
    /\ pc \in {"radius", "scale"} =>
          \A i \in 1..Len(Vertices) : Renormalized(Vertices[i])
    /\ (pc = "scale" /\ pc' = "mesh") =>
          Vertices' = [i \in 1..Len(Vertices) |-> VScale(Vertices[i], ChosenRadius)]
    /\ (pc = "mesh" /\ pc' = "convex") =>
          /\ ProcMesh'.Sections[1].Vertices = Vertices
          /\ Vertices' = Vertices
    /\ (pc = "convex" /\ pc' = "stats") =>
          ProcMesh'.ConvexMeshes = <<Vertices>>
    /\ OrderKept'

LayerResult(Vs, k, seed) ==
    The({ Force([i \in 1..Len(Vs) |-> res[i].V])
          : res \in {ApplyNoiseLayer(Vs, NoiseLayers[k], seed, MaxDisplacementFraction)} })

\* the unit vertices after the layers 1 .. k, applied in list order, each to
\* what the layer before it left
RECURSIVE AfterLayers(_)
AfterLayers(k) ==
    IF k = 0 THEN unitVertices
    ELSE The({ LayerResult(before, k, usedSeeds[k]) : before \in {AfterLayers(k - 1)} })

\* C22: the layers are applied in list order and compound: when layer k
\* runs, every vertex is as the layers 1 .. k-1 left it, and layer k samples
\* the noise at, and displaces along the normal of, that position.
C22_LayersCompound ==
    LayerApplied =>
        /\ Len(usedSeeds) = layerIndex
        /\ \A k \in 1..layerIndex : usedSeeds[k] = LayerSeeds[k]
        /\ layerStartVertices = AfterLayers(layerIndex - 1)
        /\ \A off \in {LayerOffsets(usedSeeds[layerIndex])} :
           \A i \in 1..Len(Vertices) :
           \A V \in {layerStartVertices[i]} :
           \A normal \in {Normalize(V)} :
              /\ displacements[i] =
                    Clamp(DotProduct(NoiseOffset(V, NoiseLayers[layerIndex], off), normal),
                          -MaxDisplacementFraction, MaxDisplacementFraction)
              /\ Vertices[i] = VAdd(V, VScale(normal, displacements[i]))

\* two layers have run, the second on vertices the first had moved, and the
\* same two layers in the other order leave other vertices
C22_Witness ==
    /\ LayerApplied
    /\ layerIndex = 2
    /\ layerStartVertices # unitVertices
    /\ Vertices # LayerResult(LayerResult(unitVertices, 2, usedSeeds[2]), 1, usedSeeds[1])

\* ------------------------------------------------------------------------
\* The generation configuration during a run
\* ------------------------------------------------------------------------
\* C23: no step of GenerateAsteroid changes the generation configuration:
\* GlobalSeed, every field of every noise layer (a Seed < 0 included),
\* Subdivisions, MinRadius, MaxRadius, Density, MaxDisplacementFraction and
\* bEnablePhysics keep their values; the resolved seeds are in AsteroidStats.
C23_ConfigurationKept ==
    [][ /\ GlobalSeed' = GlobalSeed
        /\ NoiseLayers' = NoiseLayers
        /\ Subdivisions' = Subdivisions
        /\ MinRadius' = MinRadius
        /\ MaxRadius' = MaxRadius
        /\ Density' = Density
        /\ MaxDisplacementFraction' = MaxDisplacementFraction
        /\ bEnablePhysics' = bEnablePhysics
        /\ (pc = "stats" /\ pc' = "physics") =>
              AsteroidStats'.NoiseLayerSeeds = LayerSeeds ]_vars

\* a run with a random global seed and a layer with a derived seed has ended;
\* the resolved seeds are recorded and the configured ones are still negative
C23_Witness ==
    /\ pc = "done"
    /\ GlobalSeed < 0
    /\ UsedGlobalSeed >= 0
    /\ \E i \in 1..Len(NoiseLayers) :
          NoiseLayers[i].Seed < 0 /\ AsteroidStats.NoiseLayerSeeds[i] >= 0

\* ------------------------------------------------------------------------
\* Properties of ApplyCameraMode
\* ------------------------------------------------------------------------
\* the cameras that are active
ActiveCameras ==
    {cam \in {"NOSE_CAM", "FOLLOW_CAM", "FOLLOW_CAM2"} :
        \/ cam = "NOSE_CAM" /\ NOSE_CAM
        \/ cam = "FOLLOW_CAM" /\ FOLLOW_CAM
        \/ cam = "FOLLOW_CAM2" /\ FOLLOW_CAM2}

\* C24: once BeginPlay has run, and after any ToggleCameraMode calls, exactly
\* one of NOSE_CAM, FOLLOW_CAM and FOLLOW_CAM2 is active, and it is the one
\* of CameraMode: NOSE_CAM for Nose, FOLLOW_CAM for Chase, FOLLOW_CAM2 for
\* Chase2.
C24_OneCameraActive ==
    shipPlaying =>
        /\ Cardinality(ActiveCameras) = 1
        /\ CameraMode = "Nose" => ActiveCameras = {"NOSE_CAM"}
        /\ CameraMode = "Chase" => ActiveCameras = {"FOLLOW_CAM"}
        /\ CameraMode = "Chase2" => ActiveCameras = {"FOLLOW_CAM2"}

\* the ship began play in the configured Nose mode, was toggled to Chase and
\* on to Chase2; FOLLOW_CAM2 has replaced FOLLOW_CAM
C24_Witness ==
    /\ shipPlaying
    /\ Len(toggleTrail) >= 3
    /\ toggleTrail[Len(toggleTrail) - 2] = "Nose"
    /\ toggleTrail[Len(toggleTrail) - 1] = "Chase"
    /\ CameraMode = "Chase2"
    /\ ActiveCameras = {"FOLLOW_CAM2"}

\* ------------------------------------------------------------------------
\* Properties of the input state
\* ------------------------------------------------------------------------
\* C25: whatever raw values the input layer delivers, Thrust and Boost are
\* within [0, 1], and directly after the Completed callback of the left
\* stick, the right stick, the thrust or the boost that input is zero.
C25_InputRanges ==
    /\ 0 <= Thrust /\ Thrust <= ONE
    /\ 0 <= Boost /\ Boost <= ONE
    /\ lastCallback = "OnLeftStickComplete" => LeftStick = <<0, 0>>
    /\ lastCallback = "OnRightStickComplete" => RightStick = <<0, 0>>
    /\ lastCallback = "OnThrustComplete" => Thrust = 0
    /\ lastCallback = "OnBoostComplete" => Boost = 0

\* a raw thrust of 2.0 was delivered and stored as 1.0, while the boost
\* holds a value stored from a raw 2.0 as well
C25_Witness ==
    /\ lastCallback = "OnThrust"
    /\ GetFloat(lastValue) > ONE
    /\ Thrust = ONE
    /\ Boost = ONE

\* ------------------------------------------------------------------------
\* Properties of the derived seeds
\* ------------------------------------------------------------------------
\* C26: the seeds derived for the layers with Seed < 0 lie in
\* [0, INT32_MAX], are pairwise distinct, and are the same in every run that
\* uses the same global seed.
C26_DerivedSeedsDistinct ==
    SeedsResolved =>
        \A i \in 1..Len(NoiseLayers) :
            NoiseLayers[i].Seed < 0 =>
                /\ 0 <= LayerSeeds[i] /\ LayerSeeds[i] <= INT32_MAX
                /\ \A j \in 1..Len(NoiseLayers) :
                      (i < j /\ NoiseLayers[j].Seed < 0) => LayerSeeds[i] # LayerSeeds[j]
                /\ (runs > 1 /\ UsedGlobalSeed = prev.UsedGlobalSeed) =>
                      LayerSeeds[i] = prev.LayerSeeds[i]

\* ------------------------------------------------------------------------
\* Properties of the triangle list as a surface
\* ------------------------------------------------------------------------
\* the directed edges of a triangle list, as the triangles traverse them
DirectedEdges(Tris) ==
    { <<At(Tris, 3 * k + j), At(Tris, 3 * k + ((j + 1) % 3))>> :
         k \in 0..(Len(Tris) \div 3 - 1), j \in 0..2 }

\* no triangle of the list names a vertex twice
NoRepeatedCorner(Tris) ==
    \A k \in 0..(Len(Tris) \div 3 - 1) :
        /\ At(Tris, 3 * k) # At(Tris, 3 * k + 1)
        /\ At(Tris, 3 * k + 1) # At(Tris, 3 * k + 2)
        /\ At(Tris, 3 * k + 2) # At(Tris, 3 * k)

\* every directed edge is traversed by one triangle only and its reverse is
\* traversed as well, so an undirected edge lies in exactly two triangles,
\* which traverse it in opposite directions
ClosedManifold(Tris) ==
    \E D \in {DirectedEdges(Tris)} :
        /\ Cardinality(D) = Len(Tris)
        /\ \A e \in D : <<e[2], e[1]>> \in D
        /\ NoRepeatedCorner(Tris)

\* C27: the 20-face base list and the list after every subdivision pass are
\* consistently wound closed manifolds without a repeated corner; a mesh of
\* level L has 30 * 4^L edges and 10 * 4^L + 2 vertices.
C27_ClosedManifold ==
    pc \in {"ico_loop", "ico_built"} =>
        /\ ClosedManifold(Triangles)
        /\ Cardinality(UniqueEdges(Triangles)) = 30 * Pow4(subdivPass)
        /\ Len(Vertices) = 10 * Pow4(subdivPass) + 2

\* a mesh subdivided twice, with 480 edges and 162 vertices
C27_Witness ==
    /\ pc = "ico_built"
    /\ subdivPass = 2
    /\ Cardinality(UniqueEdges(Triangles)) = 480
    /\ Len(Vertices) = 162
    /\ ClosedManifold(Triangles)

\* the triangles the loop of CreateMeshFromData passes over with `continue`
SkippedTriangles(Vs, Tris) ==
    { k \in 0..(Len(Tris) \div 3 - 1) :
         \/ ~IsValidIndex(Vs, At(Tris, 3 * k))
         \/ ~IsValidIndex(Vs, At(Tris, 3 * k + 1))
         \/ ~IsValidIndex(Vs, At(Tris, 3 * k + 2)) }

\* the vertex indices the triangle list names
ReferencedVertices(Tris) == { At(Tris, i) : i \in 0..(Len(Tris) - 1) }

\* C28: after the base list is built and after every subdivision pass the
\* triangle list has a length that is a multiple of 3, every index in it is
\* a valid vertex index, so CreateMeshFromData would skip no triangle, and
\* every vertex is named by some triangle.
C28_IndicesValid ==
    pc \in {"ico_loop", "ico_built"} =>
        /\ Len(Triangles) % 3 = 0
        /\ \A i \in 0..(Len(Triangles) - 1) :
              0 <= At(Triangles, i) /\ At(Triangles, i) < Len(Vertices)
        /\ SkippedTriangles(Vertices, Triangles) = {}
        /\ ReferencedVertices(Triangles) = 0..(Len(Vertices) - 1)

\* between the first and the second pass: 42 vertices, all of them named
C28_Witness ==
    /\ pc = "ico_loop"
    /\ subdivPass = 1
    /\ subdivPass < Subdivisions
    /\ Len(Vertices) = 42
    /\ ReferencedVertices(Triangles) = 0..41

\* ------------------------------------------------------------------------
\* Properties of the recorded seeds
\* ------------------------------------------------------------------------
\* the configured layers with the seeds of a list as their explicit seeds
WithSeeds(Layers, Seeds) ==
    [i \in 1..Len(Layers) |-> [Layers[i] EXCEPT !.Seed = Seeds[i]]]

\* the per-layer seeds a generation resolves whose layers carry the recorded
\* seeds and whose GlobalSeed is g, FMath::Rand() returning r
SecondRunSeeds(g, r) ==
    ResolveLayerSeeds(PickGlobalSeed(g, r),
                      WithSeeds(NoiseLayers, AsteroidStats.NoiseLayerSeeds),
                      int32OverflowWraps)

\* C29: every recorded seed is >= 0, and a generation whose layers carry the
\* recorded seeds as explicit seeds resolves the recorded list again,
\* whatever its GlobalSeed is.
C29_SeedRoundTrip ==
    StatsComputed =>
        /\ Len(AsteroidStats.NoiseLayerSeeds) = Len(NoiseLayers)
        /\ \A i \in 1..Len(NoiseLayers) : AsteroidStats.NoiseLayerSeeds[i] >= 0
        /\ \A g \in GlobalSeeds, r \in RandDraws :
              SecondRunSeeds(g, r) = AsteroidStats.NoiseLayerSeeds

\* recorded seeds of which one was drawn from the global stream and is not
\* zero, and a second run that would use another global seed
C29_Witness ==
    /\ pc = "done"
    /\ \E i \in 1..Len(NoiseLayers) :
          NoiseLayers[i].Seed < 0 /\ AsteroidStats.NoiseLayerSeeds[i] > 0
    /\ \E g \in GlobalSeeds, r \in RandDraws :
          /\ PickGlobalSeed(g, r) # UsedGlobalSeed
          /\ SecondRunSeeds(g, r) = AsteroidStats.NoiseLayerSeeds

\* ------------------------------------------------------------------------
\* Properties of the exhaust bell
\* ------------------------------------------------------------------------
\* C30: AccumRollDeg stays in [0, 360); the thrust a tick uses lies in
\* [0, 1], and the scale factor it applies lies between ScaleMin and
\* ScaleMax, being ScaleMin at thrust 0 and ScaleMax at thrust 1.
C30_BellRanges ==
    /\ 0 <= AccumRollDeg /\ AccumRollDeg < 360 * ONE
    /\ lastTick.ticked =>
          /\ 0 <= lastTick.LT /\ lastTick.LT <= ONE
          /\ Min(ScaleMin, ScaleMax) <= lastTick.S
          /\ lastTick.S <= Max(ScaleMin, ScaleMax)
          /\ lastTick.LT = 0 => lastTick.S = ScaleMin
          /\ lastTick.LT = ONE => lastTick.S = ScaleMax
          /\ RelativeScale3D = lastTick.S

\* a tick at full thrust, reported after a raw value of 2.0, whose roll step
\* took the accumulated roll around the end of the range
C30_Witness ==
    /\ lastTick.ticked
    /\ lastTick.LT = ONE
    /\ lastTick.S = ScaleMax
    /\ lastCallback = "OnThrust"
    /\ GetFloat(lastValue) > ONE
    /\ lastTick.DeltaDeg > 0
    /\ AccumRollDeg < lastTick.DeltaDeg
====
